---- MODULE Spec2Model ----
(***************************************************************************)
(* Model of the minicom chat core (amatelic/minicom):                      *)
(*   - packages/chat-core/src/utils/messages.ts  (merge / ordering engine) *)
(*   - packages/chat-core/src/stores/visitorChatStore.ts                   *)
(*   - apps/visitor/src/hooks/useVisitorChat.ts  (optimistic send)         *)
(*   - packages/chat-core/src/supabase/repository.ts (sendMessage upsert)  *)
(*                                                                         *)
(* Strings whose content the code inspects (ids, client ids, thread ids)   *)
(* are sequences of one-character strings, so that trim(), template        *)
(* concatenation and localeCompare() are computed, not assumed.            *)
(***************************************************************************)
EXTENDS Integers, Sequences, FiniteSets, TLC

(***************************************************************************)
(* Bounds of the model.                                                    *)
(***************************************************************************)
MaxMsgs == 2
MaxTime == 2
MaxSeq == 2
MaxSends == 1      \* logical sends (fresh clientIds) of one session
MaxAgentSends == 1  \* logical sends of the agent in one session
MaxClears == 1      \* conversations cleared in one session
MaxCalls == 5       \* calls made to one typing controller
MaxSubs == 2        \* runs of the subscription effect of one hook
MaxBeats == 2       \* heartbeats one run of the effect publishes
MaxPatches == 2     \* messages applied to one inbox cache
MaxInserts == 2     \* realtime INSERT events the inbox subscription receives
MaxTicks == 2       \* times the clock of the inbox subscription advances
MaxSyncs == 2       \* calls of syncOwnership one visitor tab makes
MaxLockTicks == 2   \* times the clock of the visitor tabs advances
MaxAttempts == 2   \* attempts (first send and retries) per clientId

(***************************************************************************)
(* Strings.                                                                *)
(***************************************************************************)
\* Collation order of the characters used (whitespace < punctuation <
\* digits < letters), the order String.prototype.localeCompare applies.
Alphabet ==
  <<" ", "-", ":", "1", "2", "3", "4", "5", "6", "7", "8", "9",
    "b", "c", "d", "i", "m", "o", "p", "s", "t", "u">>

CharRank(c) == CHOOSE i \in 1..Len(Alphabet) : Alphabet[i] = c

\* white space as String.prototype.trim and the regular expression \\s see it
IsSpace(c) == c \in {" ", "\t", "\n"}

\* positions of s that hold something other than white space
InkPositions(s) == {i \in 1..Len(s) : ~IsSpace(s[i])}

\* s.trimStart(), computed once on the value of s
TrimStart(s) ==
  CHOOSE t \in {IF InkPositions(v) = {} THEN <<>>
                ELSE SubSeq(v, CHOOSE i \in InkPositions(v) :
                                  \A j \in InkPositions(v) : i <= j, Len(v)) :
                v \in {s}} : TRUE

\* s.trimEnd(), computed once on the value of s
TrimEnd(s) ==
  CHOOSE t \in {IF InkPositions(v) = {} THEN <<>>
                ELSE SubSeq(v, 1, CHOOSE i \in InkPositions(v) :
                                     \A j \in InkPositions(v) : j <= i) :
                v \in {s}} : TRUE

\* String.prototype.trim
Trim(s) == TrimEnd(TrimStart(s))

\* left.localeCompare(right): negative, zero or positive
RECURSIVE localeCompare(_, _)
localeCompare(left, right) ==
  IF left = <<>> /\ right = <<>> THEN 0
  ELSE IF left = <<>> THEN -1
  ELSE IF right = <<>> THEN 1
  ELSE IF CharRank(Head(left)) < CharRank(Head(right)) THEN -1
  ELSE IF CharRank(Head(left)) > CharRank(Head(right)) THEN 1
  ELSE localeCompare(Tail(left), Tail(right))

\* { ...a, ...b } : object spread, fields of b win
Spread(a, b) ==
  [f \in (DOMAIN a) \cup (DOMAIN b) |-> IF f \in DOMAIN b THEN b[f] ELSE a[f]]

(***************************************************************************)
(* utils/messages.ts                                                       *)
(***************************************************************************)
DeliveryStates == {"sending", "sent", "failed"}

stableClientKey(message) ==
  LET clientId == IF Trim(message.clientId) # <<>> THEN Trim(message.clientId)
                  ELSE message.id
  IN  message.threadId \o <<":">> \o clientId

\* the guard that keeps a sent entry is missing: the incoming message wins
mergeMessageState_IncomingWins(existing, incoming) == Spread(existing, incoming)

mergeMessageState(existing, incoming) ==
  IF existing.deliveryState = "sent" /\ incoming.deliveryState # "sent"
  THEN existing
  ELSE IF incoming.deliveryState = "sent" /\ existing.deliveryState # "sent"
  THEN Spread(existing, incoming)
  ELSE Spread(existing, incoming)

\* the comparator without the id tie-break
compareMessages_NoIdTieBreak(left, right) ==
  IF left.createdAt # right.createdAt THEN left.createdAt - right.createdAt
  ELSE left.seq - right.seq

\* the comparator without the seq level
compareMessages_IgnoresSeq(left, right) ==
  IF left.createdAt # right.createdAt THEN left.createdAt - right.createdAt
  ELSE localeCompare(left.id, right.id)

\* the comparator written as  left.id < right.id ? -1 : 1  (never 0)
compareMessages_TieIsGreater(left, right) ==
  IF left.createdAt # right.createdAt THEN left.createdAt - right.createdAt
  ELSE IF left.seq # right.seq THEN left.seq - right.seq
  ELSE IF localeCompare(left.id, right.id) < 0 THEN -1 ELSE 1

\* comparator handed to Array.prototype.sort
compareMessages(left, right) ==
  IF left.createdAt # right.createdAt THEN left.createdAt - right.createdAt
  ELSE IF left.seq # right.seq THEN left.seq - right.seq
  ELSE localeCompare(left.id, right.id)

\* Array.prototype.sort is stable: an element goes after every element
\* the comparator does not place behind it.
RECURSIVE InsertSorted(_, _)
InsertSorted(sorted, x) ==
  IF sorted = <<>> THEN <<x>>
  ELSE IF compareMessages(sorted[Len(sorted)], x) <= 0 THEN Append(sorted, x)
  ELSE Append(InsertSorted(SubSeq(sorted, 1, Len(sorted) - 1), x), sorted[Len(sorted)])

RECURSIVE sortMessages(_)
sortMessages(messages) ==
  IF messages = <<>> THEN <<>>
  ELSE InsertSorted(sortMessages(SubSeq(messages, 1, Len(messages) - 1)),
                    messages[Len(messages)])

\* The Map byClientKey: entries in insertion order; set() on a present key
\* keeps the entry's position.
MapHas(map, key) == \E i \in 1..Len(map) : map[i].key = key

MapIndex(map, key) == CHOOSE i \in 1..Len(map) : map[i].key = key

MapGet(map, key) == map[MapIndex(map, key)].value

MapSet(map, key, value) ==
  IF MapHas(map, key)
  THEN [map EXCEPT ![MapIndex(map, key)] = [key |-> key, value |-> value]]
  ELSE Append(map, [key |-> key, value |-> value])

MapValues(map) == [i \in 1..Len(map) |-> map[i].value]

\* the fold without the lookup of the existing entry
FoldMessage_NoCollapse(map, message) ==
  Append(map, [key |-> stableClientKey(message), value |-> message])

\* body of the inner forEach of mergeMessages
FoldMessage(map, message) ==
  LET key == stableClientKey(message)
  IN  IF ~MapHas(map, key) THEN MapSet(map, key, message)
      ELSE MapSet(map, key, mergeMessageState(MapGet(map, key), message))

RECURSIVE FoldSet(_, _)
FoldSet(map, set) ==
  IF set = <<>> THEN map
  ELSE FoldSet(FoldMessage(map, Head(set)), Tail(set))

RECURSIVE FoldSets(_, _)
FoldSets(map, sets) ==
  IF sets = <<>> THEN map
  ELSE FoldSets(FoldSet(map, Head(sets)), Tail(sets))

mergeMessages(sets) == sortMessages(MapValues(FoldSets(<<>>, sets)))

RECURSIVE Flatten(_)
Flatten(seqs) ==
  IF seqs = <<>> THEN <<>> ELSE Head(seqs) \o Flatten(Tail(seqs))

(***************************************************************************)
(* Inputs of the merge engine.                                             *)
(***************************************************************************)
MergeThreadId == <<"t">>
MergeClientIds == {<<"c">>, <<" ">>}
MergeIds == {<<"m", "1">>, <<"m", "2">>}

MessageUniverse ==
  [id : MergeIds, clientId : MergeClientIds, threadId : {MergeThreadId},
   senderId : {"visitor-1"}, senderRole : {"visitor"}, body : {"message"},
   createdAt : 1..MaxTime, seq : 1..MaxSeq, deliveryState : DeliveryStates]

SeqsUpTo(S, n) == UNION {[1..k -> S] : k \in 0..n}

\* two message sets holding at most MaxMsgs messages together
MergeInputs ==
  {<<SubSeq(all, 1, cut), SubSeq(all, cut + 1, Len(all))>> :
      <<all, cut>> \in {ac \in SeqsUpTo(MessageUniverse, MaxMsgs) \X (0..MaxMsgs) :
                          ac[2] <= Len(ac[1])}}

VARIABLES
  sets,          \* the arguments of one mergeMessages call
  foldIndex,     \* number of input messages folded so far
  byClientKey,   \* the Map of the fold
  merged,        \* result of the call
  remerged,      \* result of mergeMessages(merged)
  mergePhase     \* "fold", "merged", "done"

mergeVars == <<sets, foldIndex, byClientKey, merged, remerged, mergePhase>>

VARIABLES
  clock,                 \* Date.now()
  threadId,              \* visitor store: threadId
  optimisticByClientId,  \* visitor store: Record<clientId, Message>, in key order
  realtimeMessages,      \* visitor store: realtimeMessages
  pagedMessages,         \* flattenPages(messagesQuery.data.pages)
  subscribed,            \* the thread subscription effect is mounted (canOwnChat)
  attempts,              \* per clientId: position of its latest sendInternal call
  rows,                  \* the messages table
  nextRowId,             \* next id / seq the database assigns
  echoes,                \* postgres INSERT events not yet delivered to the client
  sendCount              \* clientIds generated so far

sendVars == <<clock, threadId, optimisticByClientId, realtimeMessages, pagedMessages,
              subscribed, attempts, rows, nextRowId, echoes, sendCount>>

(***************************************************************************)
(* State of the agent client (stores/agentChatStore.ts, useAgentThread.ts). *)
(***************************************************************************)
VARIABLES
  activeThreadId,        \* the thread useAgentThread is mounted with, or NoThread
  optimisticByThread,    \* per thread: clientId -> placeholder (empty when absent)
  realtimeByThread,      \* per thread: canonical rows seen (empty when absent)
  agentAttempts,         \* per clientId: position of its latest sendInternal call
  agentSendCount         \* clientIds the agent generated so far

agentVars == <<activeThreadId, optimisticByThread, realtimeByThread, agentAttempts,
               agentSendCount>>

(***************************************************************************)
(* clearConversation of the visitor client.                                *)
(***************************************************************************)
VARIABLES
  isClearing,            \* store flag set by resetForClearStart
  previousThreadId,      \* threadId captured by the running clearConversation
  clearCount             \* threads created by clearConversation so far

clearVars == <<isClearing, previousThreadId, clearCount>>

(***************************************************************************)
(* The composer: the text handed to sendMessage and its validation.        *)
(***************************************************************************)
VARIABLES
  draft,                 \* the value the composer holds
  draftValidation,       \* result of validateMessageBody(draft), once computed
  submitted              \* the composer has called sendMessage(draft)

composerVars == <<draft, draftValidation, submitted>>

(***************************************************************************)
(* State of one typing controller (createTypingController) and of what it  *)
(* has published.                                                          *)
(***************************************************************************)
VARIABLES
  currentThreadId,       \* thread the controller publishes for, or NoThread
  currentParticipantId,
  currentCanEmit,
  isTyping,              \* value of the last publish the controller remembers
  lastActivityAge,       \* Date.now() - lastActivityAt in time units, or NoTime
  debounceTimer,         \* time units until the timeout fires, or NoTimer
  idleTimer,
  refreshTimer,          \* time units until the next tick of the interval
  published,             \* payloads handed to publish by the last step
  peerTyping,            \* per thread: "typing"/"stopped" by the last payload published for it, or "none"
  lastPayload,           \* the last payload published, or NoPayload
  sinceInput,            \* time units since the last non-empty onInputChange while
                         \* no other call was made, or NoTime
  tickerAtInput,         \* the refresh interval was running when that input arrived
  truesSinceInput,       \* typing=true payloads published since that input
  callCount,             \* calls made to the controller so far
  lastCall               \* the call the last step made, or NoCall for a timer step

typingVars == <<currentThreadId, currentParticipantId, currentCanEmit, isTyping,
                lastActivityAge, debounceTimer, idleTimer, refreshTimer, published,
                peerTyping, lastPayload, sinceInput, tickerAtInput, truesSinceInput,
                callCount, lastCall>>

(***************************************************************************)
(* The subscription effect of useAgentThread / useVisitorChat: one record  *)
(* per run of the effect (connectThread, publishHeartbeat, the heartbeat   *)
(* interval and the cleanup).                                              *)
(***************************************************************************)
VARIABLES
  hookClient,            \* "agent" (useAgentThread) or "visitor" (useVisitorChat)
  subscriptions,         \* per run of the effect: its thread, position and timer
  effectCount            \* runs of the effect so far

heartbeatVars == <<hookClient, subscriptions, effectCount>>

(***************************************************************************)
(* One liveness tracker (createLivenessApi) and the calls made to it.      *)
(***************************************************************************)
VARIABLES
  online,                \* closure variable online
  channelStatus,         \* closure variable channelStatus
  latestHeartbeatAt,     \* closure variable latestHeartbeatAt, NoHeartbeatAt for null
  participantHeartbeats, \* the Map participantHeartbeats: NoHeartbeatAt for a key it lacks
  received,              \* per participant: timestamps upserted since it was last removed
  liveCall               \* the last call made to the tracker

livenessVars == <<online, channelStatus, latestHeartbeatAt, participantHeartbeats,
                  received, liveCall>>

(***************************************************************************)
(* The agent's inbox cache and the last applyMessageToInbox call.           *)
(***************************************************************************)
VARIABLES
  inboxItems,            \* the cached list of InboxThread
  inboxCurrent,          \* argument current of the last call
  inboxMessage,          \* argument message of the last call
  inboxActiveThreadId,   \* options.activeThreadId of the last call
  insertedUnknownThread, \* flag returned by the last call
  patchCount             \* calls of applyMessageToInbox so far

inboxVars == <<inboxItems, inboxCurrent, inboxMessage, inboxActiveThreadId,
               insertedUnknownThread, patchCount>>

(***************************************************************************)
(* useAgentInbox: the realtime INSERT subscription of the agent inbox.      *)
(***************************************************************************)
VARIABLES
  agentInboxCache,         \* query data under agentInboxKey
  seenMessageKeys,         \* seenMessageKeysRef.current: set of <<dedupeKey, seenAt>>
  lastUnknownInvalidateAt, \* lastUnknownInvalidateAtRef.current
  dateNow,                 \* Date.now()
  invalidateCount,         \* calls of queryClient.invalidateQueries so far
  lastInsert,              \* the row, the time and the outcome of the last INSERT event
  processed,               \* <<dedupeKey, at>> of every event that was not returned early
  insertCount,             \* INSERT events so far
  tickCount                \* advances of the clock so far

agentInboxVars == <<agentInboxCache, seenMessageKeys, lastUnknownInvalidateAt, dateNow,
                    invalidateCount, lastInsert, processed, insertCount, tickCount>>

(***************************************************************************)
(* The visitor tabs and the lock they share through localStorage.           *)
(***************************************************************************)
VARIABLES
  lockStorage,   \* localStorage item ACTIVE_TAB_LOCK_STORAGE_KEY
  lockClock,     \* Date.now(), the same for every tab
  tabPc,         \* per tab: the storage operation its running call makes next
  tabNow,        \* per tab: parameter now of its running call
  tabCurrent,    \* per tab: local current of its last call (what readLock found)
  isPrimaryTab,  \* per tab: state isPrimaryTab of useVisitorTabLock
  lockReady,     \* per tab: state lockReady of useVisitorTabLock
  grantedUntil,  \* per tab: expiresAt confirmed by its last call when that returned true, else 0
  tabMounted,    \* per tab: the effect of useVisitorTabLock is mounted
  syncCount,     \* per tab: calls of syncOwnership so far
  lockTicks      \* advances of lockClock so far

tabLockVars == <<lockStorage, lockClock, tabPc, tabNow, tabCurrent, isPrimaryTab, lockReady,
                 grantedUntil, tabMounted, syncCount, lockTicks>>

(***************************************************************************)
(* One visitor tab running useVisitorChat, and what its last step did.      *)
(***************************************************************************)
VARIABLES
  ownLockReady,     \* lockReady of useVisitorTabLock
  ownIsPrimaryTab,  \* isPrimaryTab of useVisitorTabLock
  ownThreadId,      \* store threadId, or NoThread
  ownIsClearing,    \* store isClearing
  ownPrevious,      \* previousThreadId of the running clearConversation
  ownOptimistic,    \* per clientId: "none", or deliveryState of its optimistic entry
  ownWriting,       \* clientIds whose sendInternal awaits sendMessageToThread
  ownRuns,          \* runs of the subscription effect: [stage, unsubscribed]
  ownStore,         \* store ready, liveMeta set, remoteTyping, threads in realtimeMessages
  ownStep           \* the last step: name, isCall, canOwnChat its code ran with, effects

ownerVars == <<ownLockReady, ownIsPrimaryTab, ownThreadId, ownIsClearing, ownPrevious,
               ownOptimistic, ownWriting, ownRuns, ownStore, ownStep>>

(***************************************************************************)
(* The agent chat store (useAgentChatStore) and its last action call.      *)
(***************************************************************************)
VARIABLES
  storeState,   \* AgentChatState: activeThreadId, clockMs, remoteTypingByThread
  storeCall     \* the last call: op, inbox argument, the state before it

agentStoreVars == <<storeState, storeCall>>

(***************************************************************************)
(* One SupabaseRealtimeGateway and the channels it has created.            *)
(***************************************************************************)
VARIABLES
  gwThreadId,     \* this.threadId, or NoThread
  gwChannel,      \* this.channel: index into gwChannels, or NoChannel
  gwChannels,     \* channels created: [threadId, state] with state subscribed/leaving/closed
  gwPending,      \* calls awaiting channel.unsubscribe(): [id, kind, threadId, channel]
  gwResolved,     \* the last connectThread that resolved, while no call was made since
  gwCallCount     \* calls of connectThread and disconnect so far

gatewayVars == <<gwThreadId, gwChannel, gwChannels, gwPending, gwResolved, gwCallCount>>

(***************************************************************************)
(* A reader paging through one thread with fetchThreadPage.                *)
(***************************************************************************)
VARIABLES
  pageRows,     \* the messages table, fixed while the reader pages
  pageLimit,    \* input.limit of every call
  pageCursor,   \* the nextCursor of the last call, or NoCursor
  pagePages,    \* the items of the calls made so far, first call first
  pagePhase     \* "start" before the first call, then "more" or "done"

pageVars == <<pageRows, pageLimit, pageCursor, pagePages, pagePhase>>

laterVars == <<heartbeatVars, livenessVars, inboxVars, agentInboxVars, tabLockVars, ownerVars, agentStoreVars, gatewayVars, pageVars>>

earlierVars == <<mergeVars, sendVars, agentVars, clearVars, composerVars, typingVars>>

nonHeartbeatVars == <<earlierVars, livenessVars, inboxVars, agentInboxVars, tabLockVars, ownerVars, agentStoreVars, gatewayVars, pageVars>>

nonLivenessVars == <<earlierVars, heartbeatVars, inboxVars, agentInboxVars, tabLockVars, ownerVars, agentStoreVars, gatewayVars, pageVars>>

nonInboxVars == <<earlierVars, heartbeatVars, livenessVars, agentInboxVars, tabLockVars, ownerVars, agentStoreVars, gatewayVars, pageVars>>

nonAgentInboxVars == <<earlierVars, heartbeatVars, livenessVars, inboxVars, tabLockVars, ownerVars, agentStoreVars, gatewayVars, pageVars>>

nonTabLockVars == <<earlierVars, heartbeatVars, livenessVars, inboxVars, agentInboxVars, ownerVars, agentStoreVars, gatewayVars, pageVars>>

nonOwnerVars == <<earlierVars, heartbeatVars, livenessVars, inboxVars, agentInboxVars, tabLockVars, agentStoreVars, gatewayVars, pageVars>>

nonAgentStoreVars == <<earlierVars, heartbeatVars, livenessVars, inboxVars, agentInboxVars, tabLockVars, ownerVars, gatewayVars, pageVars>>

nonGatewayVars == <<earlierVars, heartbeatVars, livenessVars, inboxVars, agentInboxVars, tabLockVars, ownerVars, agentStoreVars, pageVars>>

nonPageVars == <<earlierVars, heartbeatVars, livenessVars, inboxVars, agentInboxVars, tabLockVars, ownerVars, agentStoreVars, gatewayVars>>

restVars == <<agentVars, clearVars, composerVars, typingVars, laterVars>>

agentOtherVars == <<clearVars, composerVars, typingVars, laterVars>>

vars == <<mergeVars, sendVars, restVars>>

(***************************************************************************)
(* Optimistic send lifecycle of the visitor client: data.                  *)
(***************************************************************************)
VISITOR_ID == "visitor-1"

DigitChars == <<"1", "2", "3", "4", "5", "6", "7", "8", "9">>

\* createId("client"): a fresh id per call; the n-th one is "c<n>"
ClientIdOf(n) == <<"c", DigitChars[n]>>

ClientIdPool == {ClientIdOf(n) : n \in 1..MaxSends}

\* id the database gives the n-th inserted row
RowIdOf(n) == <<"d", "b", "-", DigitChars[n]>>

\* what the composer can hand to sendMessage
Bodies == {<<"h", "i">>, <<" ", "y", "o", " ">>, <<" ">>, <<"h", "-", "-">>}

MESSAGE_MAX_LENGTH == 500

UpperChars ==
  <<"A", "B", "C", "D", "E", "F", "G", "H", "I", "J", "K", "L", "M",
    "N", "O", "P", "Q", "R", "S", "T", "U", "V", "W", "X", "Y", "Z">>

LowerChars ==
  <<"a", "b", "c", "d", "e", "f", "g", "h", "i", "j", "k", "l", "m",
    "n", "o", "p", "q", "r", "s", "t", "u", "v", "w", "x", "y", "z">>

\* the i flag of a pattern compares letters without their case
toLowerCase(c) ==
  IF \E k \in 1..26 : UpperChars[k] = c
  THEN LowerChars[CHOOSE k \in 1..26 : UpperChars[k] = c]
  ELSE c

\* \w
IsWordChar(c) ==
  \/ \E k \in 1..26 : UpperChars[k] = c \/ LowerChars[k] = c
  \/ c \in {"0", "1", "2", "3", "4", "5", "6", "7", "8", "9", "_"}

WordAt(s, i) == i \in 1..Len(s) /\ IsWordChar(s[i])

\* \b between s[i-1] and s[i]
WordBoundary(s, i) == WordAt(s, i - 1) # WordAt(s, i)

\* the literal lit (lower case) starts at s[i], letters compared without case
LiteralAt(s, i, lit) ==
  /\ i >= 1
  /\ i + Len(lit) - 1 <= Len(s)
  /\ \A k \in 1..Len(lit) : toLowerCase(s[i + k - 1]) = lit[k]

\* s[i..j-1] is white space only
SpacesBetween(s, i, j) == \A k \in i..(j - 1) : IsSpace(s[k])

\* /'\s*(or|and)\s+[^=]+=\s*[^-]+/i
MatchesQuoteCondition(s) ==
  \E i \in 1..Len(s) :
     /\ s[i] = "'"
     /\ \E j \in (i + 1)..Len(s) :
           /\ SpacesBetween(s, i + 1, j)
           /\ \E word \in {<<"o", "r">>, <<"a", "n", "d">>} :
                 /\ LiteralAt(s, j, word)
                 /\ LET e == j + Len(word)
                    IN  /\ e <= Len(s)
                        /\ IsSpace(s[e])
                        /\ \E p \in (e + 2)..Len(s) :
                              /\ s[p] = "="
                              /\ \A k \in e..(p - 1) : s[k] # "="
                              /\ p + 1 <= Len(s)
                              /\ s[p + 1] # "-"

\* /\bunion\s+all?\s+select\b/i
MatchesUnionSelect(s) ==
  \E i \in 1..Len(s) :
     /\ WordBoundary(s, i)
     /\ LiteralAt(s, i, <<"u", "n", "i", "o", "n">>)
     /\ \E j \in (i + 6)..Len(s) :
           /\ SpacesBetween(s, i + 5, j)
           /\ \E al \in {<<"a", "l">>, <<"a", "l", "l">>} :
                 /\ LiteralAt(s, j, al)
                 /\ \E m \in (j + Len(al) + 1)..Len(s) :
                       /\ SpacesBetween(s, j + Len(al), m)
                       /\ LiteralAt(s, m, <<"s", "e", "l", "e", "c", "t">>)
                       /\ WordBoundary(s, m + 6)

StatementKeywords ==
  {<<"s", "e", "l", "e", "c", "t">>,
   <<"i", "n", "s", "e", "r", "t">>,
   <<"u", "p", "d", "a", "t", "e">>,
   <<"d", "e", "l", "e", "t", "e">>,
   <<"d", "r", "o", "p">>,
   <<"a", "l", "t", "e", "r">>,
   <<"c", "r", "e", "a", "t", "e">>,
   <<"t", "r", "u", "n", "c", "a", "t", "e">>,
   <<"e", "x", "e", "c">>,
   <<"e", "x", "e", "c", "u", "t", "e">>}

\* /;\s*(select|insert|update|delete|drop|alter|create|truncate|exec(?:ute)?)\b/i
MatchesStatementAfterSemicolon(s) ==
  \E i \in 1..Len(s) :
     /\ s[i] = ";"
     /\ \E j \in (i + 1)..Len(s) :
           /\ SpacesBetween(s, i + 1, j)
           /\ \E word \in StatementKeywords :
                 LiteralAt(s, j, word) /\ WordBoundary(s, j + Len(word))

\* /\b(drop|alter|truncate)\s+table\b/i
MatchesTableStatement(s) ==
  \E i \in 1..Len(s) :
     /\ WordBoundary(s, i)
     /\ \E word \in {<<"d", "r", "o", "p">>,
                     <<"a", "l", "t", "e", "r">>,
                     <<"t", "r", "u", "n", "c", "a", "t", "e">>} :
           /\ LiteralAt(s, i, word)
           /\ \E j \in (i + Len(word) + 1)..Len(s) :
                 /\ SpacesBetween(s, i + Len(word), j)
                 /\ LiteralAt(s, j, <<"t", "a", "b", "l", "e">>)
                 /\ WordBoundary(s, j + 5)

\* /--\s*$/
MatchesTrailingComment(s) ==
  LET t == TrimEnd(s)
  IN  Len(t) >= 2 /\ t[Len(t)] = "-" /\ t[Len(t) - 1] = "-"

\* /\/\*[\s\S]*\*\//
MatchesBlockComment(s) ==
  \E i \in 1..Len(s) :
     /\ LiteralAt(s, i, <<"/", "*">>)
     /\ \E j \in (i + 2)..Len(s) : LiteralAt(s, j, <<"*", "/">>)

SQL_INJECTION_PATTERNS ==
  <<"quote_condition", "union_select", "statement_after_semicolon",
    "table_statement", "trailing_comment", "block_comment">>

\* pattern.test(value)
PatternTest(pattern, value) ==
  CASE pattern = "quote_condition" -> MatchesQuoteCondition(value)
    [] pattern = "union_select" -> MatchesUnionSelect(value)
    [] pattern = "statement_after_semicolon" -> MatchesStatementAfterSemicolon(value)
    [] pattern = "table_statement" -> MatchesTableStatement(value)
    [] pattern = "trailing_comment" -> MatchesTrailingComment(value)
    [] pattern = "block_comment" -> MatchesBlockComment(value)

isPotentialSqlInjection(value) ==
  \E k \in 1..Len(SQL_INJECTION_PATTERNS) : PatternTest(SQL_INJECTION_PATTERNS[k], value)

\* the length test lets only shorter bodies through
validateMessageBody_AtLeastMax(value) ==
  LET normalized == Trim(value)
  IN  IF normalized = <<>>
      THEN [isValid |-> FALSE, reason |-> "empty", value |-> <<>>]
      ELSE IF Len(normalized) >= MESSAGE_MAX_LENGTH
      THEN [isValid |-> FALSE, reason |-> "too_long", value |-> normalized]
      ELSE IF isPotentialSqlInjection(normalized)
      THEN [isValid |-> FALSE, reason |-> "sql_injection", value |-> normalized]
      ELSE [isValid |-> TRUE, reason |-> "none", value |-> normalized]

validateMessageBody(value) ==
  LET normalized == Trim(value)
  IN  IF normalized = <<>>
      THEN [isValid |-> FALSE, reason |-> "empty", value |-> <<>>]
      ELSE IF Len(normalized) > MESSAGE_MAX_LENGTH
      THEN [isValid |-> FALSE, reason |-> "too_long", value |-> normalized]
      ELSE IF isPotentialSqlInjection(normalized)
      THEN [isValid |-> FALSE, reason |-> "sql_injection", value |-> normalized]
      ELSE [isValid |-> TRUE, reason |-> "none", value |-> normalized]

\* new Date(ms).toISOString() and new Date(iso).getTime()
toISOString(ms) == <<"iso", ms>>

toEpoch(iso) == iso[2]

toMessage(row) ==
  [id |-> row.id, clientId |-> row.client_id, threadId |-> row.thread_id,
   senderId |-> row.sender_id, senderRole |-> row.sender_role, body |-> row.body,
   createdAt |-> toEpoch(row.created_at), seq |-> row.seq, deliveryState |-> "sent"]

makeOptimisticMessage(input) ==
  [id |-> <<"o", "p", "t", "i", "m", "i", "s", "t", "i", "c", "-">> \o input.clientId,
   clientId |-> input.clientId, threadId |-> input.threadId,
   senderId |-> input.senderId, senderRole |-> "visitor", body |-> input.body,
   createdAt |-> input.createdAt, seq |-> input.createdAt,
   deliveryState |-> input.deliveryState]

NoMessage == [id |-> <<>>]

\* what the send gate reads: liveMeta.online, liveMeta.channelStatus and
\* window.navigator.onLine at the render the callback was created in
GateInputs ==
  [online : BOOLEAN, channelStatus : {"SUBSCRIBED", "CLOSED"}, navigatorOnLine : BOOLEAN]

GateOpen == [online |-> TRUE, channelStatus |-> "SUBSCRIBED", navigatorOnLine |-> TRUE]

\* the channel status is not looked at
canSendMessages_IgnoresChannel(gate) == gate.online /\ gate.navigatorOnLine

\* canOwnChat, threadId and visitorId are truthy wherever sendInternal gets
\* past its first return
canSendMessages(gate) ==
  gate.online /\ gate.channelStatus = "SUBSCRIBED" /\ gate.navigatorOnLine

\* a clientId no sendInternal call has used yet
NoAttempt ==
  [stage |-> "none", count |-> 0, optimistic |-> NoMessage, message |-> NoMessage,
   viaFallback |-> FALSE, gate |-> GateOpen]

InFlightStages == {"writing", "resolving", "rejecting", "broadcast"}

AGENT_ID == "agent-1"

NoThread == <<>>

\* threads of the agent's inbox
AgentThreads == {<<"a">>, <<"b">>}

\* createId("client") in the agent client: the n-th one is "g<n>"
AgentClientIdOf(n) == <<"g", DigitChars[n]>>

AgentClientIdPool == {AgentClientIdOf(n) : n \in 1..MaxAgentSends}

\* what the agent's composer can hand to sendMessage
AgentBodies == {<<"h", "i">>, <<" ">>}

\* the gate of the agent reads the same three values
AgentGateInputs == {g \in GateInputs : g.online /\ g.navigatorOnLine}

AgentIdle ==
  /\ activeThreadId = NoThread
  /\ optimisticByThread = [t \in AgentThreads |-> <<>>]
  /\ realtimeByThread = [t \in AgentThreads |-> <<>>]
  /\ agentAttempts = [c \in AgentClientIdPool |-> NoAttempt]
  /\ agentSendCount = 0

ClearIdle ==
  /\ isClearing = FALSE
  /\ previousThreadId = NoThread
  /\ clearCount = 0

NoValidation == [isValid |-> FALSE, reason |-> "pending", value |-> <<>>]

ComposerIdle ==
  /\ draft = <<>>
  /\ draftValidation = NoValidation
  /\ submitted = FALSE

TYPING_DEBOUNCE_MS == 300

TYPING_IDLE_MS == 3000

TYPING_REFRESH_MS == 1200

\* length of one time unit in milliseconds
TimeUnitMs == 100

NoTimer == -1

NoTime == -1

NoPayload == [threadId |-> NoThread]

NoCall == [name |-> "none"]

\* threads a typing controller is pointed at
TypingThreads == {<<"a">>, <<"b">>}

ParticipantIds == {"visitor-1", "visitor-2"}

\* a controller nobody has called yet; threadId and canEmit are the options
\* it was created with
TypingCreated(optionsThreadId, optionsCanEmit) ==
  /\ currentThreadId = optionsThreadId
  /\ currentParticipantId = "visitor-1"
  /\ currentCanEmit = optionsCanEmit
  /\ isTyping = FALSE
  /\ lastActivityAge = NoTime
  /\ debounceTimer = NoTimer
  /\ idleTimer = NoTimer
  /\ refreshTimer = NoTimer
  /\ published = <<>>
  /\ peerTyping = [tid \in TypingThreads |-> "none"]
  /\ lastPayload = NoPayload
  /\ sinceInput = NoTime
  /\ tickerAtInput = FALSE
  /\ truesSinceInput = 0
  /\ callCount = 0
  /\ lastCall = NoCall

TypingIdle == TypingCreated(NoThread, FALSE)

\* bound on the runs of the subscription effect
SubIds == 1..MaxSubs

HookClients == {"agent", "visitor"}

\* a run of the effect that has not happened
NoSubscription ==
  [threadId |-> NoThread, stage |-> "none", unsubscribed |-> FALSE,
   heartbeatTimer |-> FALSE, beats |-> 0, lateBeats |-> 0]

\* the hook is mounted without a thread: the effect returns at once
HeartbeatIdle ==
  /\ hookClient = "visitor"
  /\ subscriptions = [n \in SubIds |-> NoSubscription]
  /\ effectCount = 0

\* latestHeartbeatAt = null
NoHeartbeatAt == -1

LivenessParticipants == {"agent-1", "visitor-1"}

\* createLivenessApi: the closure variables as initialised
LivenessCreated ==
  /\ online = TRUE
  /\ channelStatus = "CLOSED"
  /\ latestHeartbeatAt = NoHeartbeatAt
  /\ participantHeartbeats = [p \in LivenessParticipants |-> NoHeartbeatAt]

LivenessIdle ==
  /\ LivenessCreated
  /\ received = [p \in LivenessParticipants |-> {}]
  /\ liveCall = NoCall

\* lastMessage = null, and the message of a call not made
NoLastMessage == [id |-> "none"]

\* the inbox cache is empty and has never been patched
InboxIdle ==
  /\ inboxItems = <<>>
  /\ inboxCurrent = <<>>
  /\ inboxMessage = NoLastMessage
  /\ inboxActiveThreadId = NoThread
  /\ insertedUnknownThread = FALSE
  /\ patchCount = 0

\* no INSERT event yet
NoInsert == [outcome |-> "none"]

\* a value of Date.now() when the hook mounts
MountNow == 100000

\* the inbox subscription has just been mounted on an empty cache
AgentInboxIdle ==
  /\ agentInboxCache = <<>>
  /\ seenMessageKeys = {}
  /\ lastUnknownInvalidateAt = 0
  /\ dateNow = MountNow
  /\ invalidateCount = 0
  /\ lastInsert = NoInsert
  /\ processed = {}
  /\ insertCount = 0
  /\ tickCount = 0

\* the visitor tabs
TabIds == {"tab-1", "tab-2"}

\* getItem gives null
StoredNull == [kind |-> "null"]

\* a value of Date.now() when the tabs are open
TabsOpenNow == 10000

\* two tabs have mounted useVisitorTabLock and no timer has fired yet
TabLockIdle ==
  /\ lockStorage = StoredNull
  /\ lockClock = TabsOpenNow
  /\ tabPc = [tab \in TabIds |-> "idle"]
  /\ tabNow = [tab \in TabIds |-> 0]
  /\ tabCurrent = [tab \in TabIds |-> StoredNull]
  /\ isPrimaryTab = [tab \in TabIds |-> TRUE]
  /\ lockReady = [tab \in TabIds |-> FALSE]
  /\ grantedUntil = [tab \in TabIds |-> 0]
  /\ tabMounted = [tab \in TabIds |-> TRUE]
  /\ syncCount = [tab \in TabIds |-> 0]
  /\ lockTicks = 0

\* clientIds one visitor tab uses
OwnClientIds == {"c1", "c2"}

NoStep == [name |-> "none", isCall |-> FALSE, canOwnChat |-> FALSE, effects |-> {}]

\* useVisitorChat has mounted: visitorId, repository and gateway are set, the
\* lock is not resolved and bootstrap has not returned
OwnerIdle ==
  /\ ownLockReady = FALSE
  /\ ownIsPrimaryTab = TRUE
  /\ ownThreadId = NoThread
  /\ ownIsClearing = FALSE
  /\ ownPrevious = NoThread
  /\ ownOptimistic = [c \in OwnClientIds |-> "none"]
  /\ ownWriting = {}
  /\ ownRuns = {}
  /\ ownStore = [ready |-> FALSE, liveMeta |-> FALSE, remoteTyping |-> FALSE,
                 realtimeMessages |-> {}]
  /\ ownStep = NoStep

\* createInitialState()
createInitialState ==
  [activeThreadId |-> NoThread, clockMs |-> 0, remoteTypingByThread |-> {}]

NoStoreCall == [op |-> "none", inbox |-> <<>>, before |-> createInitialState]

AgentStoreIdle ==
  /\ storeState = createInitialState
  /\ storeCall = NoStoreCall

NoChannel == 0

NoResolved == [threadId |-> NoThread, channel |-> NoChannel]

\* a gateway just constructed
GatewayIdle ==
  /\ gwThreadId = NoThread
  /\ gwChannel = NoChannel
  /\ gwChannels = <<>>
  /\ gwPending = {}
  /\ gwResolved = NoResolved
  /\ gwCallCount = 0

NoCursor == [id |-> <<>>]

PageIdle ==
  /\ pageRows = {}
  /\ pageLimit = 1
  /\ pageCursor = NoCursor
  /\ pagePages = <<>>
  /\ pagePhase = "start"

LaterIdle == HeartbeatIdle /\ LivenessIdle /\ InboxIdle /\ AgentInboxIdle /\ TabLockIdle /\ OwnerIdle /\ AgentStoreIdle /\ GatewayIdle /\ PageIdle

RestIdle == AgentIdle /\ ClearIdle /\ ComposerIdle /\ TypingIdle /\ LaterIdle

SendIdle ==
  /\ clock = 1
  /\ threadId = <<"t">>
  /\ optimisticByClientId = <<>>
  /\ realtimeMessages = <<>>
  /\ pagedMessages = <<>>
  /\ subscribed = TRUE
  /\ attempts = [c \in ClientIdPool |-> NoAttempt]
  /\ rows = {}
  /\ nextRowId = 1
  /\ echoes = {}
  /\ sendCount = 0

\* everything but the later subsystems is at rest
EarlierIdle ==
  /\ SendIdle
  /\ AgentIdle
  /\ ClearIdle
  /\ ComposerIdle
  /\ TypingIdle
  /\ sets = <<<<>>, <<>>>>
  /\ foldIndex = 0
  /\ byClientKey = <<>>
  /\ merged = <<>>
  /\ remerged = <<>>
  /\ mergePhase = "fold"

\* what a specification of one later subsystem starts the others from
NonHeartbeatIdle == EarlierIdle /\ LivenessIdle /\ InboxIdle /\ AgentInboxIdle /\ TabLockIdle /\ OwnerIdle /\ AgentStoreIdle /\ GatewayIdle /\ PageIdle

NonLivenessIdle == EarlierIdle /\ HeartbeatIdle /\ InboxIdle /\ AgentInboxIdle /\ TabLockIdle /\ OwnerIdle /\ AgentStoreIdle /\ GatewayIdle /\ PageIdle

NonInboxIdle == EarlierIdle /\ HeartbeatIdle /\ LivenessIdle /\ AgentInboxIdle /\ TabLockIdle /\ OwnerIdle /\ AgentStoreIdle /\ GatewayIdle /\ PageIdle

NonAgentInboxIdle == EarlierIdle /\ HeartbeatIdle /\ LivenessIdle /\ InboxIdle /\ TabLockIdle /\ OwnerIdle /\ AgentStoreIdle /\ GatewayIdle /\ PageIdle

NonTabLockIdle == EarlierIdle /\ HeartbeatIdle /\ LivenessIdle /\ InboxIdle /\ AgentInboxIdle /\ OwnerIdle /\ AgentStoreIdle /\ GatewayIdle /\ PageIdle

NonOwnerIdle == EarlierIdle /\ HeartbeatIdle /\ LivenessIdle /\ InboxIdle /\ AgentInboxIdle /\ TabLockIdle /\ AgentStoreIdle /\ GatewayIdle /\ PageIdle

NonAgentStoreIdle == EarlierIdle /\ HeartbeatIdle /\ LivenessIdle /\ InboxIdle /\ AgentInboxIdle /\ TabLockIdle /\ OwnerIdle /\ GatewayIdle /\ PageIdle

NonGatewayIdle == EarlierIdle /\ HeartbeatIdle /\ LivenessIdle /\ InboxIdle /\ AgentInboxIdle /\ TabLockIdle /\ OwnerIdle /\ AgentStoreIdle /\ PageIdle

NonPageIdle == EarlierIdle /\ HeartbeatIdle /\ LivenessIdle /\ InboxIdle /\ AgentInboxIdle /\ TabLockIdle /\ OwnerIdle /\ AgentStoreIdle /\ GatewayIdle

MergeInit ==
  /\ SendIdle
  /\ RestIdle
  /\ sets \in MergeInputs
  /\ foldIndex = 0
  /\ byClientKey = <<>>
  /\ merged = <<>>
  /\ remerged = <<>>
  /\ mergePhase = "fold"

\* one iteration of set.forEach inside sets.forEach
FoldStep ==
  /\ mergePhase = "fold"
  /\ foldIndex < Len(Flatten(sets))
  /\ byClientKey' = FoldMessage(byClientKey, Flatten(sets)[foldIndex + 1])
  /\ foldIndex' = foldIndex + 1
  /\ UNCHANGED <<sets, merged, remerged, mergePhase, sendVars, restVars>>

\* return sortMessages([...byClientKey.values()])
SortStep ==
  /\ mergePhase = "fold"
  /\ foldIndex = Len(Flatten(sets))
  /\ merged' = sortMessages(MapValues(byClientKey))
  /\ mergePhase' = "merged"
  /\ UNCHANGED <<sets, foldIndex, byClientKey, remerged, sendVars, restVars>>

\* the result handed to mergeMessages again
Remerge ==
  /\ mergePhase = "merged"
  /\ remerged' = mergeMessages(<<merged>>)
  /\ mergePhase' = "done"
  /\ UNCHANGED <<sets, foldIndex, byClientKey, merged, sendVars, restVars>>

MergeNext == FoldStep \/ SortStep \/ Remerge

SpecMerge == MergeInit /\ [][MergeNext]_vars

(***************************************************************************)
(* Properties of the merge engine (checked under SpecMerge).               *)
(***************************************************************************)
Injections(n) ==
  {q \in [1..n -> 1..n] : \A i, j \in 1..n : q[i] = q[j] => i = j}

PermsOf(s) == {[i \in 1..Len(s) |-> s[p[i]]] : p \in Injections(Len(s))}

\* every order of the sets combined with every order inside each set
Arrangements(ss) ==
  UNION {{t \in [1..Len(q) -> UNION {PermsOf(q[i]) : i \in 1..Len(q)}] :
            \A i \in 1..Len(q) : t[i] \in PermsOf(q[i])} : q \in PermsOf(ss)}

InputMessages == {Flatten(sets)[i] : i \in 1..Len(Flatten(sets))}

InputKeys == {stableClientKey(m) : m \in InputMessages}

WithKey(k) == {m \in InputMessages : stableClientKey(m) = k}

\* (createdAt, seq, id) of a is not after that of b
TripleLeq(a, b) ==
  \/ a.createdAt < b.createdAt
  \/ a.createdAt = b.createdAt /\ a.seq < b.seq
  \/ a.createdAt = b.createdAt /\ a.seq = b.seq /\ localeCompare(a.id, b.id) <= 0

SameTriple(a, b) == a.createdAt = b.createdAt /\ a.seq = b.seq /\ a.id = b.id

\* C2 (as stated): every arrangement of the input sets and of the messages
\* inside each set gives the identical output sequence, also when two inputs
\* share an identity key and differ in their fields.
C2_OrderIndependent ==
  mergePhase # "fold" => \A arr \in Arrangements(sets) : mergeMessages(arr) = merged

\* The inputs leave no choice to the argument order: per identity key the
\* sent inputs are all equal, without a sent input all inputs of the key are
\* equal, and inputs of different keys differ in (createdAt, seq, id).
Unambiguous ==
  /\ \A k \in InputKeys :
        LET sentOnes == {m \in WithKey(k) : m.deliveryState = "sent"}
        IN  IF sentOnes # {} THEN Cardinality(sentOnes) = 1
            ELSE Cardinality(WithKey(k)) = 1
  /\ \A a, b \in InputMessages :
        stableClientKey(a) # stableClientKey(b) => ~SameTriple(a, b)

\* C2 (amended): mergeMessages is independent of the order of the sets and of
\* the order inside each set whenever, per identity key, the sent inputs are
\* all equal (all inputs are equal when none is sent) and inputs of different
\* keys differ in (createdAt, seq, id).
C2_OrderIndependentAmended ==
  (mergePhase # "fold" /\ Unambiguous) =>
     \A arr \in Arrangements(sets) : mergeMessages(arr) = merged

C2_Witness ==
  /\ mergePhase = "merged"
  /\ Unambiguous
  /\ Len(sets[1]) >= 1 /\ Len(sets[2]) >= 1
  /\ \E k \in InputKeys : Cardinality(WithKey(k)) = 2
  /\ merged # Flatten(sets)

\* C3: the output holds exactly one entry per identity key of the inputs, and
\* a key with a single sent input next to sending inputs (an optimistic
\* placeholder and its confirmed row) is represented by the sent input.
C3_OneEntryPerKey ==
  mergePhase # "fold" =>
     /\ {stableClientKey(merged[i]) : i \in 1..Len(merged)} = InputKeys
     /\ Len(merged) = Cardinality(InputKeys)
     /\ \A k \in InputKeys :
           LET sentOnes == {m \in WithKey(k) : m.deliveryState = "sent"}
           IN  (Cardinality(sentOnes) = 1 /\ \E m \in WithKey(k) : m.deliveryState = "sending")
                  => \E i \in 1..Len(merged) : {merged[i]} = sentOnes

C3_Witness ==
  /\ mergePhase = "merged"
  /\ Len(Flatten(sets)) = 2
  /\ Len(merged) = 1
  /\ Flatten(sets)[1].deliveryState = "sending"
  /\ Flatten(sets)[2].deliveryState = "sent"
  /\ Flatten(sets)[1].id # Flatten(sets)[2].id
  /\ merged[1] = Flatten(sets)[2]

\* the fold is about to process a non-sent message whose key is stored as sent
StaleIncoming ==
  /\ mergePhase = "fold"
  /\ foldIndex < Len(Flatten(sets))
  /\ LET incoming == Flatten(sets)[foldIndex + 1]
     IN  /\ incoming.deliveryState \in {"sending", "failed"}
         /\ MapHas(byClientKey, stableClientKey(incoming))
         /\ MapGet(byClientKey, stableClientKey(incoming)).deliveryState = "sent"

\* C4: folding a sending or failed message into a key stored as sent leaves
\* the stored entry (and the whole map) unchanged in every field.
C4_SentNeverRegresses == [][StaleIncoming => byClientKey' = byClientKey]_vars

C4_Witness ==
  /\ mergePhase = "fold"
  /\ foldIndex = 2
  /\ Flatten(sets)[1].deliveryState = "sent"
  /\ Flatten(sets)[2].deliveryState = "failed"
  /\ Flatten(sets)[2].id # Flatten(sets)[1].id
  /\ stableClientKey(Flatten(sets)[1]) = stableClientKey(Flatten(sets)[2])
  /\ byClientKey = <<[key |-> stableClientKey(Flatten(sets)[1]), value |-> Flatten(sets)[1]]>>

\* C5: adjacent entries of the output are non-decreasing in
\* (createdAt, seq, id), whatever the arrival order in the inputs.
C5_TotalOrder ==
  mergePhase # "fold" =>
     \A i \in 1..(Len(merged) - 1) : TripleLeq(merged[i], merged[i + 1])

C5_Witness ==
  /\ mergePhase = "merged"
  /\ Len(merged) = 2
  /\ merged[1] = Flatten(sets)[2]
  /\ merged[2] = Flatten(sets)[1]
  /\ merged[1].createdAt = merged[2].createdAt
  /\ merged[1].seq < merged[2].seq

\* C6: merging the output of a merge again returns the same sequence.
C6_Idempotent == mergePhase = "done" => remerged = merged

C6_Witness ==
  /\ mergePhase = "done"
  /\ Len(merged) = 2
  /\ SameTriple(merged[1], merged[2])
  /\ remerged = merged

(***************************************************************************)
(* stores/visitorChatStore.ts                                              *)
(***************************************************************************)
MapDelete(map, key) ==
  LET keep == {i \in 1..Len(map) : map[i].key # key}
      Pos(i) == Cardinality({j \in keep : j <= i})
  IN  [n \in 1..Cardinality(keep) |-> map[CHOOSE i \in keep : Pos(i) = n]]

upsertRealtimeMessage(realtime, message) == mergeMessages(<<realtime, <<message>>>>)

resetRealtimeForThread(current, realtime, target) ==
  IF current # target \/ realtime = <<>> THEN realtime ELSE <<>>

setOptimistic(optimistic, message) == MapSet(optimistic, message.clientId, message)

removeOptimistic(optimistic, clientId) ==
  IF ~MapHas(optimistic, clientId) THEN optimistic ELSE MapDelete(optimistic, clientId)

\* the bucket is left alone when clientId has no entry
markOptimisticFailed_NoFallback(optimistic, clientId, fallback) ==
  IF ~MapHas(optimistic, clientId) THEN optimistic
  ELSE MapSet(optimistic, clientId,
              Spread(MapGet(optimistic, clientId), [deliveryState |-> "failed"]))

markOptimisticFailed(optimistic, clientId, fallback) ==
  LET current == IF MapHas(optimistic, clientId) THEN MapGet(optimistic, clientId)
                 ELSE fallback
      nextFailed == Spread(current, [deliveryState |-> "failed"])
  IN  IF /\ MapHas(optimistic, clientId)
         /\ MapGet(optimistic, clientId).deliveryState = "failed"
         /\ MapGet(optimistic, clientId).body = nextFailed.body
         /\ MapGet(optimistic, clientId).createdAt = nextFailed.createdAt
      THEN optimistic
      ELSE MapSet(optimistic, clientId, nextFailed)

\* Object.values(optimisticByClientId)
optimisticMessages == MapValues(optimisticByClientId)

\* the list the hook returns as `messages`
messages == mergeMessages(<<pagedMessages, realtimeMessages, optimisticMessages>>)

(***************************************************************************)
(* supabase/repository.ts : sendMessage                                    *)
(***************************************************************************)
ConflictRows(table, input) ==
  {r \in table : r.thread_id = input.threadId /\ r.client_id = input.clientId}

InsertedRow(input, n) ==
  [id |-> RowIdOf(n), client_id |-> input.clientId, thread_id |-> input.threadId,
   sender_id |-> input.senderId, sender_role |-> input.senderRole,
   body |-> validateMessageBody(input.body).value,
   created_at |-> toISOString(input.createdAt), seq |-> n]

UpdatedRow(r, input) ==
  [r EXCEPT !.sender_id = input.senderId, !.sender_role = input.senderRole,
            !.body = validateMessageBody(input.body).value,
            !.created_at = toISOString(input.createdAt)]

\* a plain insert: the onConflict target is ignored
Upsert_InsertOnly(table, input, n) ==
  [rows |-> table \cup {InsertedRow(input, n)}, row |-> InsertedRow(input, n),
   inserted |-> TRUE]

\* .upsert(values, { onConflict: "thread_id,client_id" }).select().single()
Upsert(table, input, n) ==
  IF ConflictRows(table, input) # {}
  THEN LET old == CHOOSE r \in ConflictRows(table, input) : TRUE
       IN  [rows |-> (table \ {old}) \cup {UpdatedRow(old, input)},
            row |-> UpdatedRow(old, input), inserted |-> FALSE]
  ELSE [rows |-> table \cup {InsertedRow(input, n)}, row |-> InsertedRow(input, n),
        inserted |-> TRUE]

RECURSIVE SetToSeq(_)
SetToSeq(S) ==
  IF S = {} THEN <<>>
  ELSE LET x == CHOOSE y \in S : TRUE IN <<x>> \o SetToSeq(S \ {x})

\* every page of the thread, flattened oldest first
ThreadHistory(table, tid) ==
  sortMessages(SetToSeq({toMessage(r) : r \in {q \in table : q.thread_id = tid}}))

(***************************************************************************)
(* hooks/useVisitorChat.ts                                                 *)
(***************************************************************************)
\* sendInternal up to its first await
sendInternal(body, clientId, isNew, gate) ==
  LET validation == validateMessageBody(body)
      optimistic == makeOptimisticMessage(
                      [clientId |-> clientId, threadId |-> threadId,
                       senderId |-> VISITOR_ID, body |-> validation.value,
                       createdAt |-> clock, deliveryState |-> "sending"])
  IN  IF ~subscribed \/ threadId = NoThread \/ ~validation.isValid
      THEN UNCHANGED sendVars
      ELSE /\ optimisticByClientId' =
                IF canSendMessages(gate)
                THEN setOptimistic(optimisticByClientId, optimistic)
                ELSE markOptimisticFailed(setOptimistic(optimisticByClientId, optimistic),
                                          clientId, optimistic)
           /\ attempts' = [attempts EXCEPT ![clientId] =
                [stage |-> IF canSendMessages(gate) THEN "writing" ELSE "failed_gate",
                 count |-> @.count + 1, optimistic |-> optimistic,
                 message |-> NoMessage, viaFallback |-> FALSE, gate |-> gate]]
           /\ sendCount' = IF isNew THEN sendCount + 1 ELSE sendCount
           /\ UNCHANGED <<clock, threadId, realtimeMessages, pagedMessages, subscribed,
                          rows, nextRowId, echoes>>

SendMessage ==
  /\ sendCount < MaxSends
  /\ \E body \in Bodies, gate \in GateInputs :
        sendInternal(body, ClientIdOf(sendCount + 1), TRUE, gate)
  /\ UNCHANGED <<mergeVars, restVars>>

\* the entry is resent whatever its deliveryState
RetryMessage_AnyEntry ==
  /\ \E clientId \in ClientIdPool, gate \in GateInputs :
        /\ MapHas(optimisticByClientId, clientId)
        /\ attempts[clientId].count < MaxAttempts
        /\ sendInternal(MapGet(optimisticByClientId, clientId).body, clientId, FALSE,
                        gate)
  /\ UNCHANGED <<mergeVars, restVars>>

RetryMessage ==
  /\ \E clientId \in ClientIdPool, gate \in GateInputs :
        /\ MapHas(optimisticByClientId, clientId)
        /\ MapGet(optimisticByClientId, clientId).deliveryState = "failed"
        /\ attempts[clientId].count < MaxAttempts
        /\ sendInternal(MapGet(optimisticByClientId, clientId).body, clientId, FALSE,
                        gate)
  /\ UNCHANGED <<mergeVars, restVars>>

\* the repository executes sendMessage for the attempt of clientId
RepoSendMessage ==
  /\ \E clientId \in ClientIdPool, outcome \in {"ok", "error", "error_after_write"} :
        LET a == attempts[clientId]
            input == [threadId |-> a.optimistic.threadId, clientId |-> clientId,
                      senderId |-> VISITOR_ID, senderRole |-> "visitor",
                      body |-> a.optimistic.body, createdAt |-> a.optimistic.createdAt]
            up == Upsert(rows, input, nextRowId)
        IN  /\ a.stage = "writing"
            /\ IF outcome = "error" \/ ~validateMessageBody(input.body).isValid
               THEN /\ attempts' = [attempts EXCEPT ![clientId].stage = "rejecting"]
                    /\ UNCHANGED <<rows, nextRowId, echoes>>
               ELSE /\ rows' = up.rows
                    /\ nextRowId' = IF up.inserted THEN nextRowId + 1 ELSE nextRowId
                    /\ echoes' = IF up.inserted /\ subscribed /\ up.row.thread_id = threadId
                                 THEN echoes \cup {toMessage(up.row)} ELSE echoes
                    /\ attempts' = [attempts EXCEPT ![clientId] =
                         IF outcome = "ok"
                         THEN [@ EXCEPT !.stage = "resolving", !.message = toMessage(up.row)]
                         ELSE [@ EXCEPT !.stage = "rejecting"]]
  /\ UNCHANGED <<clock, threadId, optimisticByClientId, realtimeMessages, pagedMessages,
                 subscribed, sendCount, mergeVars, restVars>>

\* sendMessageToThread resolved: the lines after the await inside try
SendResolved ==
  /\ \E clientId \in ClientIdPool :
        /\ attempts[clientId].stage = "resolving"
        /\ realtimeMessages' =
             upsertRealtimeMessage(realtimeMessages, attempts[clientId].message)
        /\ optimisticByClientId' = removeOptimistic(optimisticByClientId, clientId)
        /\ attempts' = [attempts EXCEPT ![clientId].stage =
                          IF subscribed THEN "broadcast" ELSE "delivered"]
  /\ UNCHANGED <<clock, threadId, pagedMessages, subscribed, rows, nextRowId, echoes,
                 sendCount, mergeVars, restVars>>

\* sendMessageToThread rejected: the catch block
SendRejected ==
  /\ \E clientId \in ClientIdPool :
        /\ attempts[clientId].stage = "rejecting"
        /\ optimisticByClientId' =
             markOptimisticFailed(optimisticByClientId, clientId,
                                  attempts[clientId].optimistic)
        /\ attempts' = [attempts EXCEPT ![clientId] =
                          [@ EXCEPT !.stage = "failed_repo",
                                    !.viaFallback = ~MapHas(optimisticByClientId, clientId)]]
  /\ UNCHANGED <<clock, threadId, realtimeMessages, pagedMessages, subscribed, rows,
                 nextRowId, echoes, sendCount, mergeVars, restVars>>

\* gateway.sendMessage resolved: sendInternal returns
BroadcastResolved ==
  /\ \E clientId \in ClientIdPool :
        /\ attempts[clientId].stage = "broadcast"
        /\ attempts' = [attempts EXCEPT ![clientId].stage = "delivered"]
  /\ UNCHANGED <<clock, threadId, optimisticByClientId, realtimeMessages, pagedMessages,
                 subscribed, rows, nextRowId, echoes, sendCount, mergeVars, restVars>>

\* gateway.sendMessage rejected: the catch block
BroadcastRejected ==
  /\ \E clientId \in ClientIdPool :
        /\ attempts[clientId].stage = "broadcast"
        /\ optimisticByClientId' =
             markOptimisticFailed(optimisticByClientId, clientId,
                                  attempts[clientId].optimistic)
        /\ attempts' = [attempts EXCEPT ![clientId] =
                          [@ EXCEPT !.stage = "failed_gateway",
                                    !.viaFallback = ~MapHas(optimisticByClientId, clientId)]]
  /\ UNCHANGED <<clock, threadId, realtimeMessages, pagedMessages, subscribed, rows,
                 nextRowId, echoes, sendCount, mergeVars, restVars>>

\* the subscription handler receives message.inserted
DeliverEcho ==
  /\ subscribed
  /\ \E message \in echoes :
        /\ echoes' = echoes \ {message}
        /\ IF message.threadId # threadId
           THEN UNCHANGED <<realtimeMessages, optimisticByClientId>>
           ELSE /\ realtimeMessages' = upsertRealtimeMessage(realtimeMessages, message)
                /\ optimisticByClientId' =
                     removeOptimistic(optimisticByClientId, message.clientId)
  /\ UNCHANGED <<clock, threadId, pagedMessages, subscribed, attempts, rows, nextRowId,
                 sendCount, mergeVars, restVars>>

\* cleanup of the subscription effect
Teardown ==
  /\ subscribed
  /\ subscribed' = FALSE
  /\ realtimeMessages' = resetRealtimeForThread(threadId, realtimeMessages, threadId)
  /\ echoes' = {}
  /\ UNCHANGED <<clock, threadId, optimisticByClientId, pagedMessages, attempts, rows,
                 nextRowId, sendCount, mergeVars, restVars>>

\* the subscription effect runs again
Subscribe ==
  /\ ~subscribed
  /\ threadId # NoThread
  /\ subscribed' = TRUE
  /\ UNCHANGED <<clock, threadId, optimisticByClientId, realtimeMessages, pagedMessages,
                 attempts, rows, nextRowId, echoes, sendCount, mergeVars, restVars>>

\* messagesQuery (re)fetches the pages of the thread
FetchThreadPages ==
  /\ threadId # NoThread
  /\ pagedMessages' = ThreadHistory(rows, threadId)
  /\ UNCHANGED <<clock, threadId, optimisticByClientId, realtimeMessages, subscribed,
                 attempts, rows, nextRowId, echoes, sendCount, mergeVars, restVars>>

Tick ==
  /\ clock < MaxTime
  /\ clock' = clock + 1
  /\ UNCHANGED <<threadId, optimisticByClientId, realtimeMessages, pagedMessages,
                 subscribed, attempts, rows, nextRowId, echoes, sendCount, mergeVars, restVars>>

SendInit ==
  /\ SendIdle
  /\ RestIdle
  /\ sets = <<<<>>, <<>>>>
  /\ foldIndex = 0
  /\ byClientKey = <<>>
  /\ merged = <<>>
  /\ remerged = <<>>
  /\ mergePhase = "fold"

SendNext ==
  \/ SendMessage
  \/ RetryMessage
  \/ RepoSendMessage
  \/ SendResolved
  \/ SendRejected
  \/ BroadcastResolved
  \/ BroadcastRejected
  \/ DeliverEcho
  \/ Teardown
  \/ Subscribe
  \/ FetchThreadPages
  \/ Tick

SpecSend == SendInit /\ [][SendNext]_vars

\* the same client while its thread subscription stays mounted
SendLiveNext ==
  \/ SendMessage
  \/ RetryMessage
  \/ RepoSendMessage
  \/ SendResolved
  \/ SendRejected
  \/ BroadcastResolved
  \/ BroadcastRejected
  \/ DeliverEcho
  \/ FetchThreadPages
  \/ Tick

SpecSendLive == SendInit /\ [][SendLiveNext]_vars

(***************************************************************************)
(* Properties of the send lifecycle.                                       *)
(***************************************************************************)
\* entries of the shown list that belong to the logical send clientId
ShownFor(clientId) ==
  {messages[i] : i \in {j \in 1..Len(messages) :
       stableClientKey(messages[j]) = threadId \o <<":">> \o clientId}}

ShownStates(clientId) == {m.deliveryState : m \in ShownFor(clientId)}

\* C1: in the list the client shows, an identity (threadId, clientId) that is
\* shown as sent is not shown as sending or failed afterwards: no step leads
\* from a list showing it as sent to a list showing it as sending or failed.
C1_SentIsTerminal ==
  [][\A clientId \in ClientIdPool :
        ShownStates(clientId) = {"sent"} =>
           ShownStates(clientId)' \cap {"sending", "failed"} = {}]_vars

SentMessagesOf(clientId) ==
  {m \in {realtimeMessages[i] : i \in 1..Len(realtimeMessages)}
         \cup {pagedMessages[i] : i \in 1..Len(pagedMessages)}
         \cup echoes
         \cup {attempts[c].message : c \in {d \in ClientIdPool : attempts[d].message # NoMessage}} :
     m.clientId = clientId}

Settled(clientId) ==
  /\ attempts[clientId].stage \notin InFlightStages
  /\ \A e \in echoes : e.clientId # clientId

\* C8: once a retried send has settled and the table holds its row, the shown
\* list has exactly one entry for the clientId, in state sent, with the id,
\* body, createdAt and seq of that row.
C8_RetryConverges ==
  \A clientId \in ClientIdPool : \A r \in rows :
     (/\ r.client_id = clientId /\ r.thread_id = threadId
      /\ attempts[clientId].count >= 2
      /\ Settled(clientId))
     => ShownFor(clientId) = {toMessage(r)}

\* C9: when the repository write succeeded, at the moment sendInternal
\* returns the realtime bucket holds the canonical row and the optimistic
\* bucket holds no entry for the clientId, whether the broadcast resolved or
\* rejected.
C9_WriteSuccessSettles ==
  [][\A clientId \in ClientIdPool :
        (attempts[clientId].stage = "broadcast" /\ attempts'[clientId].stage # "broadcast")
        => /\ \E i \in 1..Len(realtimeMessages') :
                 realtimeMessages'[i] = attempts[clientId].message
           /\ ~MapHas(optimisticByClientId', clientId)]_vars

\* C10: when the repository write rejects, the optimistic bucket afterwards
\* holds a failed entry for the clientId with the body, clientId and createdAt
\* of the attempt's placeholder, also when the placeholder had been removed.
C10_RejectMarksFailed ==
  [][\A clientId \in ClientIdPool :
        (attempts[clientId].stage = "rejecting" /\ attempts'[clientId].stage = "failed_repo")
        => /\ MapHas(optimisticByClientId', clientId)
           /\ LET entry == MapGet(optimisticByClientId', clientId)
                  placeholder == attempts[clientId].optimistic
              IN  /\ entry.deliveryState = "failed"
                  /\ entry.body = placeholder.body
                  /\ entry.clientId = clientId
                  /\ entry.createdAt = placeholder.createdAt]_vars

\* a rejection that found the placeholder removed by an echo
C10_Witness ==
  \E clientId \in ClientIdPool :
     /\ attempts[clientId].stage = "failed_repo"
     /\ attempts[clientId].viaFallback
     /\ MapHas(optimisticByClientId, clientId)
     /\ MapGet(optimisticByClientId, clientId) =
          Spread(attempts[clientId].optimistic, [deliveryState |-> "failed"])
     /\ \E i \in 1..Len(realtimeMessages) : realtimeMessages[i].clientId = clientId

\* the network is offline or the channel is not SUBSCRIBED
GateClosed(gate) ==
  ~gate.online \/ gate.channelStatus # "SUBSCRIBED" \/ ~gate.navigatorOnLine

RowsOf(clientId) == {r \in rows : r.client_id = clientId}

\* C11: a send or retry that starts while the gate is false registers the
\* placeholder and leaves it marked failed in the same step, without touching
\* the table or the pending events; afterwards that attempt never moves on to
\* a repository write or a broadcast: it stays as it is until the next attempt.
C11_GateClosedStopsSend ==
  [][\A clientId \in ClientIdPool :
        /\ (attempts'[clientId].count = attempts[clientId].count + 1
             /\ GateClosed(attempts'[clientId].gate))
            => /\ MapHas(optimisticByClientId', clientId)
               /\ MapGet(optimisticByClientId', clientId) =
                    Spread(attempts'[clientId].optimistic, [deliveryState |-> "failed"])
               /\ attempts'[clientId].stage \notin InFlightStages
               /\ rows' = rows /\ echoes' = echoes
               /\ realtimeMessages' = realtimeMessages
        /\ (attempts'[clientId].count = attempts[clientId].count
             /\ GateClosed(attempts[clientId].gate))
            => /\ attempts'[clientId] = attempts[clientId]
               /\ RowsOf(clientId)' = RowsOf(clientId)]_vars

\* a retry started with the channel closed
C11_Witness ==
  \E clientId \in ClientIdPool :
     /\ attempts[clientId].count = 2
     /\ attempts[clientId].gate.channelStatus = "CLOSED"
     /\ attempts[clientId].gate.online /\ attempts[clientId].gate.navigatorOnLine
     /\ MapHas(optimisticByClientId, clientId)
     /\ MapGet(optimisticByClientId, clientId).deliveryState = "failed"
     /\ MapGet(optimisticByClientId, clientId).createdAt = 2
     /\ RowsOf(clientId) = {}

\* clientId has a failed entry in the optimistic bucket
HasFailedEntry(clientId) ==
  /\ MapHas(optimisticByClientId, clientId)
  /\ MapGet(optimisticByClientId, clientId).deliveryState = "failed"

\* C12: a further attempt for a clientId starts only from a failed entry of
\* the optimistic bucket; its placeholder has the clientId and the body of
\* that entry, which is the body of the attempt before, and a repository
\* write for the clientId stores that clientId and that body.
C12_RetryKeepsClientIdAndBody ==
  [][\A clientId \in ClientIdPool :
        /\ (attempts[clientId].count >= 1
             /\ attempts'[clientId].count # attempts[clientId].count)
            => /\ HasFailedEntry(clientId)
               /\ attempts'[clientId].count = attempts[clientId].count + 1
               /\ attempts'[clientId].optimistic.clientId = clientId
               /\ attempts'[clientId].optimistic.body =
                    MapGet(optimisticByClientId, clientId).body
               /\ attempts'[clientId].optimistic.body = attempts[clientId].optimistic.body
               /\ MapGet(optimisticByClientId', clientId).body =
                    attempts[clientId].optimistic.body
        /\ RowsOf(clientId)' # RowsOf(clientId)
            => \A r \in RowsOf(clientId)' :
                  r.body = attempts[clientId].optimistic.body]_vars

\* the retry of a failed send has written its row with the body first sent
C12_Witness ==
  \E clientId \in ClientIdPool :
     /\ attempts[clientId].count = 2
     /\ attempts[clientId].stage = "resolving"
     /\ attempts[clientId].optimistic.body = <<"y", "o">>
     /\ attempts[clientId].optimistic.createdAt = 2
     /\ \E r \in RowsOf(clientId) : r.body = <<"y", "o">> /\ toEpoch(r.created_at) = 2

(***************************************************************************)
(* stores/agentChatStore.ts : the buckets are keyed by thread              *)
(***************************************************************************)
agentUpsertRealtimeMessage(byThread, tid, message) ==
  [byThread EXCEPT ![tid] = mergeMessages(<<@, <<message>>>>)]

agentSetOptimistic(byThread, tid, message) ==
  [byThread EXCEPT ![tid] = MapSet(@, message.clientId, message)]

agentRemoveOptimistic(byThread, tid, clientId) ==
  IF ~MapHas(byThread[tid], clientId) THEN byThread
  ELSE [byThread EXCEPT ![tid] = MapDelete(@, clientId)]

agentMarkOptimisticFailed(byThread, tid, clientId, fallback) ==
  LET currentByThread == byThread[tid]
      current == IF MapHas(currentByThread, clientId)
                 THEN MapGet(currentByThread, clientId) ELSE fallback
      nextFailed == Spread(current, [deliveryState |-> "failed"])
  IN  IF /\ MapHas(currentByThread, clientId)
         /\ MapGet(currentByThread, clientId).deliveryState = "failed"
         /\ MapGet(currentByThread, clientId).body = nextFailed.body
         /\ MapGet(currentByThread, clientId).createdAt = nextFailed.createdAt
      THEN byThread
      ELSE [byThread EXCEPT ![tid] = MapSet(@, clientId, nextFailed)]

(***************************************************************************)
(* hooks/useAgentThread.ts                                                 *)
(***************************************************************************)
\* variables of the visitor client, which the agent client never writes
visitorVars == <<threadId, optimisticByClientId, realtimeMessages, pagedMessages,
                 subscribed, attempts, sendCount>>

\* the thread an attempt was started for: targetThreadId of its sendInternal call
TargetOf(attempt) == attempt.optimistic.threadId

\* the agent selects another conversation, or none
SetActiveThreadId ==
  /\ \E tid \in AgentThreads \cup {NoThread} :
        /\ tid # activeThreadId
        /\ activeThreadId' = tid
  /\ UNCHANGED <<optimisticByThread, realtimeByThread, agentAttempts, agentSendCount,
                 clock, rows, nextRowId, echoes, visitorVars, mergeVars, agentOtherVars>>

\* sendInternal up to its first await
agentSendInternal(body, clientId, isNew, gate) ==
  LET targetThreadId == activeThreadId
      validation == validateMessageBody(body)
      optimistic == [makeOptimisticMessage(
                       [clientId |-> clientId, threadId |-> targetThreadId,
                        senderId |-> AGENT_ID, body |-> validation.value,
                        createdAt |-> clock, deliveryState |-> "sending"])
                     EXCEPT !.senderRole = "agent"]
  IN  IF targetThreadId = NoThread \/ ~validation.isValid
      THEN UNCHANGED agentVars
      ELSE /\ optimisticByThread' =
                IF canSendMessages(gate)
                THEN agentSetOptimistic(optimisticByThread, targetThreadId, optimistic)
                ELSE agentMarkOptimisticFailed(
                       agentSetOptimistic(optimisticByThread, targetThreadId, optimistic),
                       targetThreadId, clientId, optimistic)
           /\ agentAttempts' = [agentAttempts EXCEPT ![clientId] =
                [stage |-> IF canSendMessages(gate) THEN "writing" ELSE "failed_gate",
                 count |-> @.count + 1, optimistic |-> optimistic,
                 message |-> NoMessage, viaFallback |-> FALSE, gate |-> gate]]
           /\ agentSendCount' = IF isNew THEN agentSendCount + 1 ELSE agentSendCount
           /\ UNCHANGED <<activeThreadId, realtimeByThread>>

AgentSendMessage ==
  /\ agentSendCount < MaxAgentSends
  /\ \E body \in AgentBodies, gate \in AgentGateInputs :
        agentSendInternal(body, AgentClientIdOf(agentSendCount + 1), TRUE, gate)
  /\ UNCHANGED <<clock, rows, nextRowId, echoes, visitorVars, mergeVars, agentOtherVars>>

AgentRetryMessage ==
  /\ activeThreadId # NoThread
  /\ \E clientId \in AgentClientIdPool, gate \in AgentGateInputs :
        /\ MapHas(optimisticByThread[activeThreadId], clientId)
        /\ MapGet(optimisticByThread[activeThreadId], clientId).deliveryState = "failed"
        /\ agentAttempts[clientId].count < MaxAttempts
        /\ agentSendInternal(MapGet(optimisticByThread[activeThreadId], clientId).body,
                             clientId, FALSE, gate)
  /\ UNCHANGED <<clock, rows, nextRowId, echoes, visitorVars, mergeVars, agentOtherVars>>

\* the repository executes sendMessage for the attempt of clientId
AgentRepoSendMessage ==
  /\ \E clientId \in AgentClientIdPool, outcome \in {"ok", "error", "error_after_write"} :
        LET a == agentAttempts[clientId]
            input == [threadId |-> TargetOf(a), clientId |-> clientId,
                      senderId |-> AGENT_ID, senderRole |-> "agent",
                      body |-> a.optimistic.body, createdAt |-> a.optimistic.createdAt]
            up == Upsert(rows, input, nextRowId)
        IN  /\ a.stage = "writing"
            /\ IF outcome = "error"
               THEN /\ agentAttempts' = [agentAttempts EXCEPT ![clientId].stage = "rejecting"]
                    /\ UNCHANGED <<rows, nextRowId, echoes>>
               ELSE /\ rows' = up.rows
                    /\ nextRowId' = IF up.inserted THEN nextRowId + 1 ELSE nextRowId
                    /\ echoes' = IF up.inserted /\ up.row.thread_id = activeThreadId
                                 THEN echoes \cup {toMessage(up.row)} ELSE echoes
                    /\ agentAttempts' = [agentAttempts EXCEPT ![clientId] =
                         IF outcome = "ok"
                         THEN [@ EXCEPT !.stage = "resolving", !.message = toMessage(up.row)]
                         ELSE [@ EXCEPT !.stage = "rejecting"]]
  /\ UNCHANGED <<activeThreadId, optimisticByThread, realtimeByThread, agentSendCount,
                 clock, visitorVars, mergeVars, agentOtherVars>>

\* sendMessageToThread resolved: the lines after the await inside try
AgentSendResolved_ActiveThread ==
  /\ activeThreadId # NoThread
  /\ \E clientId \in AgentClientIdPool :
        /\ agentAttempts[clientId].stage = "resolving"
        /\ realtimeByThread' =
             agentUpsertRealtimeMessage(realtimeByThread, activeThreadId,
                                        agentAttempts[clientId].message)
        /\ optimisticByThread' =
             agentRemoveOptimistic(optimisticByThread, activeThreadId, clientId)
        /\ agentAttempts' = [agentAttempts EXCEPT ![clientId].stage = "broadcast"]
  /\ UNCHANGED <<activeThreadId, agentSendCount, clock, rows, nextRowId, echoes,
                 visitorVars, mergeVars, agentOtherVars>>

AgentSendResolved ==
  /\ \E clientId \in AgentClientIdPool :
        /\ agentAttempts[clientId].stage = "resolving"
        /\ realtimeByThread' =
             agentUpsertRealtimeMessage(realtimeByThread,
                                        TargetOf(agentAttempts[clientId]),
                                        agentAttempts[clientId].message)
        /\ optimisticByThread' =
             agentRemoveOptimistic(optimisticByThread,
                                   TargetOf(agentAttempts[clientId]), clientId)
        /\ agentAttempts' = [agentAttempts EXCEPT ![clientId].stage = "broadcast"]
  /\ UNCHANGED <<activeThreadId, agentSendCount, clock, rows, nextRowId, echoes,
                 visitorVars, mergeVars, agentOtherVars>>

\* sendMessageToThread rejected: the catch block
AgentSendRejected ==
  /\ \E clientId \in AgentClientIdPool :
        /\ agentAttempts[clientId].stage = "rejecting"
        /\ optimisticByThread' =
             agentMarkOptimisticFailed(optimisticByThread,
                                       TargetOf(agentAttempts[clientId]), clientId,
                                       agentAttempts[clientId].optimistic)
        /\ agentAttempts' = [agentAttempts EXCEPT ![clientId] =
             [@ EXCEPT !.stage = "failed_repo",
                       !.viaFallback =
                          ~MapHas(optimisticByThread[TargetOf(agentAttempts[clientId])],
                                  clientId)]]
  /\ UNCHANGED <<activeThreadId, realtimeByThread, agentSendCount, clock, rows,
                 nextRowId, echoes, visitorVars, mergeVars, agentOtherVars>>

\* gateway.sendMessage resolved: sendInternal returns
AgentBroadcastResolved ==
  /\ \E clientId \in AgentClientIdPool :
        /\ agentAttempts[clientId].stage = "broadcast"
        /\ agentAttempts' = [agentAttempts EXCEPT ![clientId].stage = "delivered"]
  /\ UNCHANGED <<activeThreadId, optimisticByThread, realtimeByThread, agentSendCount,
                 clock, rows, nextRowId, echoes, visitorVars, mergeVars, agentOtherVars>>

\* gateway.sendMessage rejected: the catch block
AgentBroadcastRejected ==
  /\ \E clientId \in AgentClientIdPool :
        /\ agentAttempts[clientId].stage = "broadcast"
        /\ optimisticByThread' =
             agentMarkOptimisticFailed(optimisticByThread,
                                       TargetOf(agentAttempts[clientId]), clientId,
                                       agentAttempts[clientId].optimistic)
        /\ agentAttempts' = [agentAttempts EXCEPT ![clientId] =
             [@ EXCEPT !.stage = "failed_gateway",
                       !.viaFallback =
                          ~MapHas(optimisticByThread[TargetOf(agentAttempts[clientId])],
                                  clientId)]]
  /\ UNCHANGED <<activeThreadId, realtimeByThread, agentSendCount, clock, rows,
                 nextRowId, echoes, visitorVars, mergeVars, agentOtherVars>>

\* the gateway subscription of the mounted thread receives message.inserted
AgentDeliverEcho ==
  /\ \E message \in echoes :
        /\ echoes' = echoes \ {message}
        /\ IF message.threadId # activeThreadId
           THEN UNCHANGED <<realtimeByThread, optimisticByThread>>
           ELSE /\ realtimeByThread' =
                     agentUpsertRealtimeMessage(realtimeByThread, message.threadId, message)
                /\ optimisticByThread' =
                     agentRemoveOptimistic(optimisticByThread, message.threadId,
                                           message.clientId)
  /\ UNCHANGED <<activeThreadId, agentAttempts, agentSendCount, clock, rows, nextRowId,
                 visitorVars, mergeVars, agentOtherVars>>

AgentNext ==
  \/ SetActiveThreadId
  \/ AgentSendMessage
  \/ AgentRetryMessage
  \/ AgentRepoSendMessage
  \/ AgentSendResolved
  \/ AgentSendRejected
  \/ AgentBroadcastResolved
  \/ AgentBroadcastRejected
  \/ AgentDeliverEcho
  \/ Tick

SpecAgent == SendInit /\ [][AgentNext]_vars

\* the list useAgentThread returns for thread tid (no page fetched yet)
agentMessages(tid) ==
  mergeMessages(<<<<>>, realtimeByThread[tid], MapValues(optimisticByThread[tid])>>)

\* C13: every write of an agent send lands in the buckets of the thread the
\* send was started for: a step that moves an attempt leaves the buckets of
\* every other thread as they were, and puts the canonical row (on success) or
\* the failed entry (on failure) into the buckets of the attempt's own thread,
\* whichever thread is active at that moment.
C13_WritesLandInTargetThread ==
  [][\A clientId \in AgentClientIdPool :
        agentAttempts'[clientId] # agentAttempts[clientId]
        => LET target == TargetOf(agentAttempts'[clientId])
               stage == agentAttempts'[clientId].stage
           IN  /\ \A tid \in AgentThreads \ {target} :
                     /\ optimisticByThread'[tid] = optimisticByThread[tid]
                     /\ realtimeByThread'[tid] = realtimeByThread[tid]
               /\ stage = "writing"
                  => /\ MapHas(optimisticByThread'[target], clientId)
                     /\ MapGet(optimisticByThread'[target], clientId).deliveryState = "sending"
               /\ stage \in {"failed_gate", "failed_repo", "failed_gateway"}
                  => /\ MapHas(optimisticByThread'[target], clientId)
                     /\ MapGet(optimisticByThread'[target], clientId).deliveryState = "failed"
               /\ (stage = "broadcast" /\ agentAttempts[clientId].stage = "resolving")
                  => /\ \E i \in 1..Len(realtimeByThread'[target]) :
                           realtimeByThread'[target][i] = agentAttempts'[clientId].message
                     /\ ~MapHas(optimisticByThread'[target], clientId)]_vars

\* a send started in thread a has completed while thread b is active
C13_Witness ==
  \E clientId \in AgentClientIdPool :
     /\ agentAttempts[clientId].stage = "broadcast"
     /\ TargetOf(agentAttempts[clientId]) = <<"a">>
     /\ activeThreadId = <<"b">>
     /\ Len(realtimeByThread[<<"a">>]) = 1
     /\ realtimeByThread[<<"b">>] = <<>>
     /\ optimisticByThread[<<"b">>] = <<>>

(***************************************************************************)
(* hooks/useVisitorChat.ts : clearConversation                             *)
(***************************************************************************)
\* id of the n-th thread ensureThread creates
ThreadIdOf(n) == <<"u", DigitChars[n]>>

\* clearConversation up to its await; the thread id becoming null unmounts the
\* subscription (its cleanup calls resetRealtimeForThread with the old id) and
\* leaves the query of the old thread
ClearConversation ==
  /\ subscribed
  /\ ~isClearing
  /\ clearCount < MaxClears
  /\ previousThreadId' = threadId
  /\ isClearing' = TRUE
  /\ threadId' = NoThread
  /\ optimisticByClientId' = <<>>
  /\ realtimeMessages' = resetRealtimeForThread(NoThread, <<>>, threadId)
  /\ pagedMessages' = <<>>
  /\ subscribed' = FALSE
  /\ echoes' = {}
  /\ UNCHANGED <<clock, attempts, rows, nextRowId, sendCount, clearCount,
                 mergeVars, agentVars, composerVars, typingVars, laterVars>>

\* ensureThread resolved with a new thread: setThreadId, finalizeClear, and the
\* subscription effect mounts for the new id
EnsureThreadResolved ==
  /\ isClearing
  /\ threadId' = ThreadIdOf(clearCount + 1)
  /\ clearCount' = clearCount + 1
  /\ isClearing' = FALSE
  /\ subscribed' = TRUE
  /\ UNCHANGED <<clock, optimisticByClientId, realtimeMessages, pagedMessages, attempts,
                 rows, nextRowId, echoes, sendCount, previousThreadId,
                 mergeVars, agentVars, composerVars, typingVars, laterVars>>

\* ensureThread rejected: restoreThreadAfterClearFailure, finalizeClear
EnsureThreadRejected ==
  /\ isClearing
  /\ threadId' = previousThreadId
  /\ isClearing' = FALSE
  /\ subscribed' = (previousThreadId # NoThread)
  /\ UNCHANGED <<clock, optimisticByClientId, realtimeMessages, pagedMessages, attempts,
                 rows, nextRowId, echoes, sendCount, previousThreadId, clearCount,
                 mergeVars, agentVars, composerVars, typingVars, laterVars>>

ClearNext ==
  \/ SendNext
  \/ ClearConversation
  \/ EnsureThreadResolved
  \/ EnsureThreadRejected

SpecClear == SendInit /\ [][ClearNext]_vars

\* messages the visitor client holds or shows
HeldMessages ==
  {messages[i] : i \in 1..Len(messages)}
    \cup {realtimeMessages[i] : i \in 1..Len(realtimeMessages)}
    \cup {optimisticMessages[i] : i \in 1..Len(optimisticMessages)}

\* C14: while the visitor client has a thread, every message of its merged
\* list, its realtime bucket and its optimistic bucket belongs to that
\* thread, also when a send to the thread before is still completing.
C14_NoMessageOfOldThread ==
  threadId # NoThread => \A m \in HeldMessages : m.threadId = threadId

(***************************************************************************)
(* utils/messageContent.ts : validateMessageBody at the send boundary      *)
(***************************************************************************)
Repeat(c, n) == [k \in 1..n |-> c]

\* texts around the length limit
LongDrafts ==
  {Repeat("a", MESSAGE_MAX_LENGTH - 1),
   Repeat("a", MESSAGE_MAX_LENGTH),
   Repeat("a", MESSAGE_MAX_LENGTH + 1),
   <<" ">> \o Repeat("a", MESSAGE_MAX_LENGTH) \o <<" ", "\n">>,
   Repeat("a", MESSAGE_MAX_LENGTH - 2) \o <<"-", "-">>,
   Repeat("a", MESSAGE_MAX_LENGTH - 1) \o <<"-", "-">>,
   Repeat(" ", MESSAGE_MAX_LENGTH + 1)}

\* texts a user can type into the composer
ShortDrafts ==
  {<<>>,
   <<" ">>,
   <<" ", "\t", "\n">>,
   <<"h", "i">>,
   <<" ", "y", "o", " ">>,
   <<"\t", "h", "i", "\n">>,
   <<"a", "-", "b">>,
   <<"i", "t", "'", "s">>,
   <<"a", " ", "=", " ", "b">>,
   <<"x", ";", "y">>,
   <<"'", " ", "o", "r", " ", "1", "=", "1">>,
   <<"'", "O", "R", " ", "a", "=", "b">>,
   <<"'", " ", " ", "a", "n", "d", " ", "x", " ", "=", "y">>,
   <<"'", " ", "o", "r", " ", "1", "=", "-">>,
   <<"'", " ", "o", "r", "=", "1">>,
   <<"'", "o", "r", "1", "=", "1">>,
   <<"'", " ", "n", "o", "r", " ", "a", "=", "b">>,
   <<"u", "n", "i", "o", "n", " ", "a", "l", "l", " ", "s", "e", "l", "e", "c", "t">>,
   <<"U", "N", "I", "O", "N", " ", "A", "L", "L", " ", "S", "E", "L", "E", "C", "T">>,
   <<"u", "n", "i", "o", "n", " ", "a", "l", " ", "s", "e", "l", "e", "c", "t">>,
   <<"u", "n", "i", "o", "n", " ", "s", "e", "l", "e", "c", "t">>,
   <<"r", "e", "u", "n", "i", "o", "n", " ", "a", "l", "l", " ", "s", "e", "l", "e", "c", "t">>,
   <<"u", "n", "i", "o", "n", " ", "a", "l", "l", " ", "s", "e", "l", "e", "c", "t", "s">>,
   <<"u", "n", "i", "o", "n", " ", " ", "a", "l", "l", "\t", "s", "e", "l", "e", "c", "t", " ", "x">>,
   <<";", " ", "d", "r", "o", "p">>,
   <<";", "D", "R", "O", "P", " ", "x">>,
   <<"x", ";", " ", "s", "e", "l", "e", "c", "t", " ", "1">>,
   <<";", " ", "d", "r", "o", "p", "x">>,
   <<";", " ", "e", "x", "e", "c">>,
   <<";", "e", "x", "e", "c", "u", "t", "e">>,
   <<";", " ", "e", "x", "e", "c", "u", "t", "e", "s">>,
   <<"d", "r", "o", "p", " ", "i", "t">>,
   <<"d", "r", "o", "p", " ", "t", "a", "b", "l", "e">>,
   <<"D", "r", "o", "p", " ", " ", "T", "a", "b", "l", "e", " ", "t">>,
   <<"d", "r", "o", "p", "t", "a", "b", "l", "e">>,
   <<"a", "l", "t", "e", "r", " ", "t", "a", "b", "l", "e", " ", "x">>,
   <<"t", "r", "u", "n", "c", "a", "t", "e", " ", "t", "a", "b", "l", "e">>,
   <<"d", "r", "o", "p", " ", "t", "a", "b", "l", "e", "s">>,
   <<"x", "d", "r", "o", "p", " ", "t", "a", "b", "l", "e">>,
   <<"a", "-", "-">>,
   <<"a", "-", "-", " ">>,
   <<"-", "-", " ", "a">>,
   <<"a", "-">>,
   <<"-", "-">>,
   <<"/", "*", " ", "x", " ", "*", "/">>,
   <<"/", "*", "*", "/">>,
   <<"/", "*", " ", "x">>,
   <<"*", "/", " ", "/", "*">>,
   <<"/", "*", "/">>}

Drafts == ShortDrafts \cup LongDrafts

ValidateInit ==
  /\ SendIdle
  /\ AgentIdle
  /\ ClearIdle
  /\ TypingIdle
  /\ LaterIdle
  /\ draft \in Drafts
  /\ draftValidation = NoValidation
  /\ submitted = FALSE
  /\ sets = <<<<>>, <<>>>>
  /\ foldIndex = 0
  /\ byClientKey = <<>>
  /\ merged = <<>>
  /\ remerged = <<>>
  /\ mergePhase = "fold"

\* the composer validates its text
ValidateDraft ==
  /\ draftValidation' = validateMessageBody(draft)
  /\ UNCHANGED <<draft, submitted, sendVars, mergeVars, agentVars, clearVars, typingVars,
                 laterVars>>

\* the composer calls sendMessage(draft)
SendDraft ==
  /\ ~submitted
  /\ sendCount < MaxSends
  /\ submitted' = TRUE
  /\ \E gate \in GateInputs :
        sendInternal(draft, ClientIdOf(sendCount + 1), TRUE, gate)
  /\ UNCHANGED <<draft, draftValidation, mergeVars, agentVars, clearVars, typingVars,
                 laterVars>>

ValidateNext ==
  \/ ValidateDraft
  \/ SendDraft
  \/ RepoSendMessage
  \/ SendResolved
  \/ SendRejected
  \/ BroadcastResolved
  \/ BroadcastRejected
  \/ DeliverEcho

SpecValidate == ValidateInit /\ [][ValidateNext]_vars

\* the reason the three checks give when applied in the order empty, length,
\* blocklist, with 500 characters still allowed
ExpectedReason(value) ==
  IF Trim(value) = <<>> THEN "empty"
  ELSE IF Len(Trim(value)) > 500 THEN "too_long"
  ELSE IF isPotentialSqlInjection(Trim(value)) THEN "sql_injection"
  ELSE "none"

nonTypingVars == <<mergeVars, sendVars, agentVars, clearVars, composerVars, laterVars>>

\* the debounce waits as long as one refresh period
DebounceUnits_Refresh == TYPING_REFRESH_MS \div TimeUnitMs

DebounceUnits == TYPING_DEBOUNCE_MS \div TimeUnitMs

\* the idle stop comes after one refresh period
IdleUnits_Refresh == TYPING_REFRESH_MS \div TimeUnitMs

IdleUnits == TYPING_IDLE_MS \div TimeUnitMs

RefreshUnits == TYPING_REFRESH_MS \div TimeUnitMs

\* the thread id is not looked at
emit_NoThreadCheck(typing, force, tid, canEmit) ==
  IF ~force /\ ~canEmit THEN [isTyping |-> isTyping, out |-> <<>>]
  ELSE IF isTyping = typing /\ ~typing THEN [isTyping |-> isTyping, out |-> <<>>]
  ELSE [isTyping |-> typing,
        out |-> <<[threadId |-> tid, participantId |-> currentParticipantId,
                   isTyping |-> typing]>>]

\* emit(typing, force): the value isTyping takes and the payloads published
emit(typing, force, tid, canEmit) ==
  IF tid = NoThread THEN [isTyping |-> isTyping, out |-> <<>>]
  ELSE IF ~force /\ ~canEmit THEN [isTyping |-> isTyping, out |-> <<>>]
  ELSE IF isTyping = typing /\ ~typing THEN [isTyping |-> isTyping, out |-> <<>>]
  ELSE [isTyping |-> typing,
        out |-> <<[threadId |-> tid, participantId |-> currentParticipantId,
                   isTyping |-> typing]>>]

\* what the subscriber of publish has seen once the payloads out are added
Observe(out) ==
  /\ published' = out
  /\ peerTyping' = IF out = <<>> THEN peerTyping
                   ELSE [peerTyping EXCEPT ![out[1].threadId] =
                           IF out[1].isTyping THEN "typing" ELSE "stopped"]
  /\ lastPayload' = IF out = <<>> THEN lastPayload ELSE out[1]
  /\ truesSinceInput' =
       IF out # <<>> /\ out[1].isTyping /\ truesSinceInput < 3
       THEN truesSinceInput + 1
       ELSE truesSinceInput

\* forceStop with the thread id and gate the caller has just set
forceStop(tid, canEmit) ==
  /\ debounceTimer' = NoTimer
  /\ idleTimer' = NoTimer
  /\ refreshTimer' = NoTimer
  /\ lastActivityAge' = NoTime
  /\ isTyping' = emit(FALSE, TRUE, tid, canEmit).isTyping
  /\ Observe(emit(FALSE, TRUE, tid, canEmit).out)

InputValues == {<<"x">>, <<" ">>}

onInputChange ==
  /\ callCount < MaxCalls
  /\ callCount' = callCount + 1
  /\ \E value \in InputValues :
        /\ lastCall' = [name |-> "onInputChange", arg |-> value]
        /\ IF Trim(value) = <<>>
           THEN /\ sinceInput' = NoTime
                /\ forceStop(currentThreadId, currentCanEmit)
                /\ UNCHANGED tickerAtInput
           ELSE /\ sinceInput' = 0
                /\ tickerAtInput' = (refreshTimer # NoTimer)
                /\ lastActivityAge' = 0
                /\ idleTimer' = IdleUnits
                /\ debounceTimer' = IF currentCanEmit THEN DebounceUnits ELSE NoTimer
                /\ truesSinceInput' = 0
                /\ published' = <<>>
                /\ UNCHANGED <<isTyping, refreshTimer, peerTyping, lastPayload>>
  /\ UNCHANGED <<currentThreadId, currentParticipantId, currentCanEmit, nonTypingVars>>

\* forceStop called by the owner of the controller
ForceStop ==
  /\ callCount < MaxCalls
  /\ callCount' = callCount + 1
  /\ lastCall' = [name |-> "forceStop"]
  /\ sinceInput' = NoTime
  /\ forceStop(currentThreadId, currentCanEmit)
  /\ UNCHANGED <<currentThreadId, currentParticipantId, currentCanEmit, tickerAtInput,
                 nonTypingVars>>

setCanEmit ==
  /\ callCount < MaxCalls
  /\ callCount' = callCount + 1
  /\ sinceInput' = NoTime
  /\ \E canEmit \in BOOLEAN :
        /\ lastCall' = [name |-> "setCanEmit", arg |-> canEmit]
        /\ currentCanEmit' = canEmit
        /\ IF currentCanEmit # canEmit /\ ~canEmit
           THEN forceStop(currentThreadId, canEmit)
           ELSE /\ Observe(<<>>)
                /\ UNCHANGED <<isTyping, lastActivityAge, debounceTimer, idleTimer,
                               refreshTimer>>
  /\ UNCHANGED <<currentThreadId, currentParticipantId, tickerAtInput, nonTypingVars>>

setThreadId ==
  /\ callCount < MaxCalls
  /\ callCount' = callCount + 1
  /\ sinceInput' = NoTime
  /\ \E tid \in TypingThreads \cup {NoThread} :
        /\ lastCall' = [name |-> "setThreadId", arg |-> tid]
        /\ currentThreadId' = tid
        /\ IF tid = NoThread
           THEN forceStop(tid, currentCanEmit)
           ELSE /\ Observe(<<>>)
                /\ UNCHANGED <<isTyping, lastActivityAge, debounceTimer, idleTimer,
                               refreshTimer>>
  /\ UNCHANGED <<currentParticipantId, currentCanEmit, tickerAtInput, nonTypingVars>>

setParticipantId ==
  /\ callCount < MaxCalls
  /\ callCount' = callCount + 1
  /\ sinceInput' = NoTime
  /\ \E participantId \in ParticipantIds :
        /\ lastCall' = [name |-> "setParticipantId", arg |-> participantId]
        /\ currentParticipantId' = participantId
  /\ Observe(<<>>)
  /\ UNCHANGED <<currentThreadId, currentCanEmit, isTyping, lastActivityAge,
                 debounceTimer, idleTimer, refreshTimer, tickerAtInput, nonTypingVars>>

destroy ==
  /\ callCount < MaxCalls
  /\ callCount' = callCount + 1
  /\ lastCall' = [name |-> "destroy"]
  /\ sinceInput' = NoTime
  /\ forceStop(currentThreadId, currentCanEmit)
  /\ UNCHANGED <<currentThreadId, currentParticipantId, currentCanEmit, tickerAtInput,
                 nonTypingVars>>

\* the debounce timeout fires: emit(true), ensureRefreshTicker
DebounceFires ==
  /\ lastCall' = NoCall
  /\ debounceTimer = 0
  /\ debounceTimer' = NoTimer
  /\ isTyping' = emit(TRUE, FALSE, currentThreadId, currentCanEmit).isTyping
  /\ refreshTimer' = IF refreshTimer # NoTimer THEN refreshTimer ELSE RefreshUnits
  /\ Observe(emit(TRUE, FALSE, currentThreadId, currentCanEmit).out)
  /\ UNCHANGED <<currentThreadId, currentParticipantId, currentCanEmit, lastActivityAge,
                 idleTimer, sinceInput, tickerAtInput, callCount, nonTypingVars>>

\* the idle timeout fires: forceStop
IdleFires ==
  /\ lastCall' = NoCall
  /\ idleTimer = 0
  /\ forceStop(currentThreadId, currentCanEmit)
  /\ UNCHANGED <<currentThreadId, currentParticipantId, currentCanEmit, sinceInput,
                 tickerAtInput, callCount, nonTypingVars>>

\* one tick of the refresh interval
RefreshFires ==
  /\ lastCall' = NoCall
  /\ refreshTimer = 0
  /\ IF lastActivityAge = NoTime
     THEN /\ refreshTimer' = RefreshUnits
          /\ Observe(<<>>)
          /\ UNCHANGED <<isTyping, lastActivityAge, debounceTimer, idleTimer>>
     ELSE IF lastActivityAge * TimeUnitMs >= TYPING_IDLE_MS
     THEN forceStop(currentThreadId, currentCanEmit)
     ELSE /\ refreshTimer' = RefreshUnits
          /\ isTyping' = emit(TRUE, FALSE, currentThreadId, currentCanEmit).isTyping
          /\ Observe(emit(TRUE, FALSE, currentThreadId, currentCanEmit).out)
          /\ UNCHANGED <<lastActivityAge, debounceTimer, idleTimer>>
  /\ UNCHANGED <<currentThreadId, currentParticipantId, currentCanEmit, sinceInput,
                 tickerAtInput, callCount, nonTypingVars>>

TimerDue == debounceTimer = 0 \/ idleTimer = 0 \/ refreshTimer = 0

TimerPending == debounceTimer # NoTimer \/ idleTimer # NoTimer \/ refreshTimer # NoTimer

\* one time unit passes; timers that are due fire first
TimePasses ==
  /\ lastCall' = NoCall
  /\ ~TimerDue
  /\ TimerPending \/ (sinceInput # NoTime /\ sinceInput <= IdleUnits)
  /\ debounceTimer' = IF debounceTimer = NoTimer THEN NoTimer ELSE debounceTimer - 1
  /\ idleTimer' = IF idleTimer = NoTimer THEN NoTimer ELSE idleTimer - 1
  /\ refreshTimer' = IF refreshTimer = NoTimer THEN NoTimer ELSE refreshTimer - 1
  /\ lastActivityAge' = IF lastActivityAge = NoTime THEN NoTime ELSE lastActivityAge + 1
  /\ sinceInput' = IF sinceInput = NoTime THEN NoTime ELSE sinceInput + 1
  /\ published' = <<>>
  /\ UNCHANGED <<currentThreadId, currentParticipantId, currentCanEmit, isTyping,
                 peerTyping, lastPayload, tickerAtInput, truesSinceInput, callCount,
                 nonTypingVars>>

TypingInit ==
  /\ SendIdle
  /\ AgentIdle
  /\ ClearIdle
  /\ ComposerIdle
  /\ LaterIdle
  /\ \E optionsThreadId \in TypingThreads \cup {NoThread}, optionsCanEmit \in BOOLEAN :
        TypingCreated(optionsThreadId, optionsCanEmit)
  /\ sets = <<<<>>, <<>>>>
  /\ foldIndex = 0
  /\ byClientKey = <<>>
  /\ merged = <<>>
  /\ remerged = <<>>
  /\ mergePhase = "fold"

TypingNext ==
  \/ onInputChange
  \/ ForceStop
  \/ setCanEmit
  \/ setThreadId
  \/ setParticipantId
  \/ destroy
  \/ DebounceFires
  \/ IdleFires
  \/ RefreshFires
  \/ TimePasses

SpecTyping == TypingInit /\ [][TypingNext]_vars

\* timers fire when due and time keeps passing while one is pending
SpecTypingLive ==
  /\ TypingInit
  /\ [][TypingNext]_vars
  /\ WF_vars(DebounceFires)
  /\ WF_vars(IdleFires)
  /\ WF_vars(RefreshFires)
  /\ WF_vars(TimePasses)

(***************************************************************************)
(* Properties of the typing controller.                                    *)
(***************************************************************************)
\* the controller is inside the quiet window after a non-empty onInputChange,
\* with the gate open and a thread set
QuietAfterInput ==
  sinceInput # NoTime /\ currentCanEmit /\ currentThreadId # NoThread

\* all timers that are due at the present instant have fired
InstantDone == ~TimerDue

\* C16 as stated: with the gate open and a thread set, from a non-empty
\* onInputChange at t on and with no further call, no typing=true is published
\* before t+300ms and exactly one has been published when t+300ms is over.
C16_DebounceThenOneEmit ==
  QuietAfterInput
  => /\ sinceInput < 300 \div TimeUnitMs => truesSinceInput = 0
     /\ (sinceInput = 300 \div TimeUnitMs /\ InstantDone) => truesSinceInput = 1

\* C16 for an input that arrives while the refresh interval is not running:
\* no typing=true before t+300ms, exactly one when t+300ms is over; a further
\* input restarts the wait because it starts a new window.
C16_DebounceThenOneEmitAmended ==
  (QuietAfterInput /\ ~tickerAtInput)
  => /\ sinceInput < 300 \div TimeUnitMs => truesSinceInput = 0
     /\ (sinceInput = 300 \div TimeUnitMs /\ InstantDone) => truesSinceInput = 1

\* a second input restarted the wait, which has now ended with one publish
C16_Witness ==
  /\ QuietAfterInput
  /\ ~tickerAtInput
  /\ callCount = 2
  /\ sinceInput = 300 \div TimeUnitMs
  /\ InstantDone
  /\ truesSinceInput = 1
  /\ published = <<[threadId |-> currentThreadId, participantId |-> currentParticipantId,
                    isTyping |-> TRUE]>>
  /\ lastActivityAge = 300 \div TimeUnitMs

\* the peer of the current thread has last heard typing=true
TrueHeard ==
  /\ lastPayload # NoPayload
  /\ lastPayload.isTyping
  /\ lastPayload.threadId = currentThreadId

\* C17: while no call follows the last non-empty onInputChange, a typing=true
\* the peer of the current thread has heard is not taken back before 3000ms
\* have passed since that input; when the instant at 3000ms is over the peer
\* has heard typing=false, no timer is left, and so nothing is published
\* afterwards.
C17_IdleStopAtThreeSeconds ==
  [][sinceInput' # NoTime
     => /\ (TrueHeard /\ sinceInput' < 3000 \div TimeUnitMs) => TrueHeard'
        /\ (sinceInput' >= 3000 \div TimeUnitMs /\ InstantDone')
           => /\ ~TrueHeard'
              /\ ~TimerPending'
              /\ (sinceInput' > 3000 \div TimeUnitMs => published' = <<>>)]_vars

\* the idle stop has just been published, after the debounced emit and two
\* refresh ticks
C17_Witness ==
  /\ sinceInput = 3000 \div TimeUnitMs
  /\ truesSinceInput = 3
  /\ published = <<[threadId |-> currentThreadId, participantId |-> currentParticipantId,
                    isTyping |-> FALSE]>>
  /\ ~TimerPending
  /\ ~isTyping

\* C18: a call setCanEmit(false) made while the last payload published was
\* typing=true and a thread is set publishes typing=false within the call and
\* leaves no timer.
C18_GateOffForcesStop ==
  [][(/\ lastCall' = [name |-> "setCanEmit", arg |-> FALSE]
      /\ callCount' = callCount + 1
      /\ lastPayload # NoPayload
      /\ lastPayload.isTyping
      /\ currentThreadId # NoThread)
     => /\ published' = <<[threadId |-> currentThreadId,
                           participantId |-> currentParticipantId,
                           isTyping |-> FALSE]>>
        /\ ~TimerPending']_vars

\* C19: every typing=true payload is published by a step that starts and ends
\* with the gate open and a thread set; what is published with the gate closed
\* or without a thread is typing=false.
C19_NoTrueWhileGateClosed ==
  [][\A i \in 1..Len(published') :
        published'[i].isTyping
        => /\ currentCanEmit /\ currentCanEmit'
           /\ currentThreadId # NoThread /\ currentThreadId' = currentThreadId
           /\ published'[i].threadId = currentThreadId]_vars

\* the gate was closed while the refresh interval was running: the stop was
\* published with the gate closed and the timers are gone
C19_Witness ==
  /\ lastCall = [name |-> "setCanEmit", arg |-> FALSE]
  /\ ~currentCanEmit
  /\ published # <<>>
  /\ ~published[1].isTyping
  /\ debounceTimer = NoTimer
  /\ refreshTimer = NoTimer
  /\ truesSinceInput = 2

\* C20: for every thread, whenever the peer has last heard typing=true it
\* eventually hears typing=false.
C20_TypingEventuallyCleared ==
  \A tid \in TypingThreads : (peerTyping[tid] = "typing") ~> (peerTyping[tid] = "stopped")

\* C21: a call of destroy leaves no debounce, idle or refresh timer and no
\* lastActivityAt, and when the last payload published before it was
\* typing=true it publishes typing=false; with no timer left nothing is
\* published until a new call is made.
C21_DestroyStopsEverything ==
  [][(lastCall' = [name |-> "destroy"] /\ callCount' = callCount + 1)
     => /\ ~TimerPending'
        /\ lastActivityAge' = NoTime
        /\ (lastPayload # NoPayload /\ lastPayload.isTyping)
           => (published' # <<>> /\ ~published'[1].isTyping)]_vars

(***************************************************************************)
(* The subscription effect and its heartbeat interval                      *)
(* (useAgentThread.ts 204-311, useVisitorChat.ts 253-388).                 *)
(***************************************************************************)
HeartbeatThreads == {<<"a">>, <<"b">>}

\* publishHeartbeat of a run: both refs are set by the effect and never reset,
\* so the heartbeat is upserted into livenessRef.current and handed to
\* gatewayRef.current; it counts as late when the cleanup of the run has
\* already been called
publishHeartbeat(sub) ==
  [sub EXCEPT !.beats = @ + 1,
              !.lateBeats = IF sub.unsubscribed THEN @ + 1 ELSE @]

\* the effect runs for a thread; React has called the cleanup of the run before
RunEffect ==
  /\ effectCount < MaxSubs
  /\ \A n \in 1..effectCount : subscriptions[n].unsubscribed
  /\ effectCount' = effectCount + 1
  /\ \E tid \in HeartbeatThreads :
        subscriptions' = [subscriptions EXCEPT ![effectCount + 1] =
                            [NoSubscription EXCEPT !.threadId = tid,
                                                   !.stage = "connecting"]]
  /\ UNCHANGED <<hookClient, nonHeartbeatVars>>

\* the cleanup the agent effect returns: clearInterval only when the closure
\* variable heartbeatTimer is already set
AgentCleanup(n) ==
  /\ hookClient = "agent"
  /\ subscriptions[n].stage # "none"
  /\ ~subscriptions[n].unsubscribed
  /\ subscriptions' = [subscriptions EXCEPT ![n].unsubscribed = TRUE,
                                            ![n].heartbeatTimer = FALSE]
  /\ UNCHANGED <<hookClient, effectCount, nonHeartbeatVars>>

\* the cleanup the visitor effect returns: unsubscribed = true, and the
\* cleanup connect() resolved with runs as soon as cleanupPromise is settled
VisitorCleanup(n) ==
  /\ hookClient = "visitor"
  /\ subscriptions[n].stage # "none"
  /\ ~subscriptions[n].unsubscribed
  /\ subscriptions' = [subscriptions EXCEPT ![n].unsubscribed = TRUE,
                                            ![n].heartbeatTimer = FALSE]
  /\ UNCHANGED <<hookClient, effectCount, nonHeartbeatVars>>

\* connectThread resolves: the agent publishes its first heartbeat, the visitor
\* does so unless unsubscribed is set
ConnectResolved(n) ==
  /\ subscriptions[n].stage = "connecting"
  /\ subscriptions' =
       [subscriptions EXCEPT ![n] =
          IF hookClient = "visitor" /\ subscriptions[n].unsubscribed
          THEN [subscriptions[n] EXCEPT !.stage = "stopped"]
          ELSE [publishHeartbeat(subscriptions[n]) EXCEPT !.stage = "publishing"]]
  /\ UNCHANGED <<hookClient, effectCount, nonHeartbeatVars>>

ConnectRejected(n) ==
  /\ subscriptions[n].stage = "connecting"
  /\ subscriptions' = [subscriptions EXCEPT ![n].stage = "stopped"]
  /\ UNCHANGED <<hookClient, effectCount, nonHeartbeatVars>>

\* the first publishHeartbeat resolves: setInterval; for the visitor the
\* pending cleanupPromise.then clears it at once when the cleanup has run
FirstHeartbeatResolved(n) ==
  /\ subscriptions[n].stage = "publishing"
  /\ subscriptions' =
       [subscriptions EXCEPT ![n].stage = "running",
                             ![n].heartbeatTimer =
                                IF hookClient = "visitor" THEN ~subscriptions[n].unsubscribed
                                ELSE TRUE]
  /\ UNCHANGED <<hookClient, effectCount, nonHeartbeatVars>>

FirstHeartbeatRejected(n) ==
  /\ subscriptions[n].stage = "publishing"
  /\ subscriptions' = [subscriptions EXCEPT ![n].stage = "stopped"]
  /\ UNCHANGED <<hookClient, effectCount, nonHeartbeatVars>>

\* the interval fires: void publishHeartbeat()
HeartbeatTick(n) ==
  /\ subscriptions[n].heartbeatTimer
  /\ subscriptions[n].beats < MaxBeats
  /\ subscriptions' = [subscriptions EXCEPT ![n] = publishHeartbeat(subscriptions[n])]
  /\ UNCHANGED <<hookClient, effectCount, nonHeartbeatVars>>

HeartbeatInit ==
  /\ NonHeartbeatIdle
  /\ hookClient \in HookClients
  /\ subscriptions = [n \in SubIds |-> NoSubscription]
  /\ effectCount = 0

HeartbeatNext ==
  \/ RunEffect
  \/ \E n \in SubIds : AgentCleanup(n)
  \/ \E n \in SubIds : VisitorCleanup(n)
  \/ \E n \in SubIds : ConnectResolved(n)
  \/ \E n \in SubIds : ConnectRejected(n)
  \/ \E n \in SubIds : FirstHeartbeatResolved(n)
  \/ \E n \in SubIds : FirstHeartbeatRejected(n)
  \/ \E n \in SubIds : HeartbeatTick(n)

SpecHeartbeat == HeartbeatInit /\ [][HeartbeatNext]_vars

\* C22: once the cleanup of a run of the subscription effect has been called,
\* the run has no heartbeat interval scheduled and has published no heartbeat
\* since, whether connectThread had resolved before the cleanup or not.
C22_NoHeartbeatAfterTeardown ==
  \A n \in SubIds :
     subscriptions[n].unsubscribed
     => /\ ~subscriptions[n].heartbeatTimer
        /\ subscriptions[n].lateBeats = 0

(***************************************************************************)
(* liveness.ts : createLivenessApi                                         *)
(***************************************************************************)
HEARTBEAT_TTL_MS == 20000

RealtimeChannelStatuses == {"CLOSED", "CHANNEL_ERROR", "TIMED_OUT", "JOINING", "SUBSCRIBED"}

\* timestamps heartbeats carry and instants the tracker is asked about
HeartbeatTimes == {0, 1, 2}

NowTimes == {0, 1, 19999, 20000, 20001, 20002, 20003}

Max(a, b) == IF a >= b THEN a ELSE b

\* isFresh: !value is true for null and for 0
isFresh(value, now) ==
  IF value = NoHeartbeatAt \/ value = 0 THEN FALSE
  ELSE now - value <= HEARTBEAT_TTL_MS

isServiceLive(now) ==
  online /\ channelStatus = "SUBSCRIBED" /\ isFresh(latestHeartbeatAt, now)

\* participantHeartbeats.get(participantId) ?? null
isParticipantLive(participantId, now) ==
  isFresh(participantHeartbeats[participantId], now)

setOnline ==
  /\ \E value \in BOOLEAN :
        /\ online' = value
        /\ liveCall' = [name |-> "setOnline", arg |-> value]
  /\ UNCHANGED <<channelStatus, latestHeartbeatAt, participantHeartbeats, received,
                 nonLivenessVars>>

setChannelStatus ==
  /\ \E status \in RealtimeChannelStatuses :
        /\ channelStatus' = status
        /\ liveCall' = [name |-> "setChannelStatus", arg |-> status]
  /\ UNCHANGED <<online, latestHeartbeatAt, participantHeartbeats, received,
                 nonLivenessVars>>

\* upsertHeartbeat without the guard against an older timestamp
upsertHeartbeat_NoGuard(participantId, at) ==
  /\ participantHeartbeats' = [participantHeartbeats EXCEPT ![participantId] = at]
  /\ latestHeartbeatAt' =
       Max(IF latestHeartbeatAt = NoHeartbeatAt THEN 0 ELSE latestHeartbeatAt, at)

upsertHeartbeat(participantId, at) ==
  LET current == IF participantHeartbeats[participantId] = NoHeartbeatAt THEN 0
                 ELSE participantHeartbeats[participantId]
  IN  IF at < current
      THEN UNCHANGED <<participantHeartbeats, latestHeartbeatAt>>
      ELSE /\ participantHeartbeats' = [participantHeartbeats EXCEPT ![participantId] = at]
           /\ latestHeartbeatAt' =
                Max(IF latestHeartbeatAt = NoHeartbeatAt THEN 0 ELSE latestHeartbeatAt, at)

UpsertHeartbeat ==
  /\ \E participantId \in LivenessParticipants, at \in HeartbeatTimes :
        /\ upsertHeartbeat(participantId, at)
        /\ received' = [received EXCEPT ![participantId] = @ \cup {at}]
        /\ liveCall' = [name |-> "upsertHeartbeat", participantId |-> participantId,
                        at |-> at]
  /\ UNCHANGED <<online, channelStatus, nonLivenessVars>>

removeParticipant ==
  /\ \E participantId \in LivenessParticipants :
        /\ participantHeartbeats' =
             IF participantHeartbeats[participantId] = NoHeartbeatAt
             THEN participantHeartbeats
             ELSE [participantHeartbeats EXCEPT ![participantId] = NoHeartbeatAt]
        /\ received' = [received EXCEPT ![participantId] = {}]
        /\ liveCall' = [name |-> "removeParticipant", participantId |-> participantId]
  /\ UNCHANGED <<online, channelStatus, latestHeartbeatAt, nonLivenessVars>>

LivenessInit ==
  /\ NonLivenessIdle
  /\ LivenessCreated
  /\ received = [p \in LivenessParticipants |-> {}]
  /\ liveCall = NoCall

LivenessNext ==
  \/ setOnline
  \/ setChannelStatus
  \/ UpsertHeartbeat
  \/ removeParticipant

SpecLiveness == LivenessInit /\ [][LivenessNext]_vars

\* C23: at every instant now, isServiceLive(now) is true exactly when the
\* tracker is online, the channel is SUBSCRIBED, a heartbeat has been recorded
\* (a heartbeat with timestamp 0 included) and now - latestHeartbeatAt <= 20000.
C23_ServiceLiveIff ==
  \A now \in NowTimes :
     isServiceLive(now)
     <=> /\ online
         /\ channelStatus = "SUBSCRIBED"
         /\ latestHeartbeatAt # NoHeartbeatAt
         /\ now - latestHeartbeatAt <= 20000

\* C24: at every instant now, isParticipantLive(p, now) is true exactly when
\* the tracker stores a heartbeat h for p with now - h <= 20000; a call of
\* removeParticipant(p) leaves p not live at every instant, and changes nothing
\* when p is not stored.
C24_ParticipantLiveIff ==
  [][
      /\ \A p \in LivenessParticipants, now \in NowTimes :
           isParticipantLive(p, now)'
           <=> /\ participantHeartbeats'[p] # NoHeartbeatAt
               /\ now - participantHeartbeats'[p] <= 20000
      /\ \A p \in LivenessParticipants :
           (liveCall'.name = "removeParticipant" /\ liveCall'.participantId = p)
           => /\ \A now \in NowTimes : ~isParticipantLive(p, now)'
              /\ participantHeartbeats[p] = NoHeartbeatAt
                 => UNCHANGED <<online, channelStatus, latestHeartbeatAt,
                                participantHeartbeats>>
    ]_vars

\* the largest timestamp of a non-empty set
MaxOf(times) == CHOOSE t \in times : \A u \in times : u <= t

\* C25: upsertHeartbeat(p, at) with at older than the timestamp stored for p
\* changes nothing in the tracker; the timestamp stored for a participant is
\* the largest one received for it since it was last removed, and a step that
\* keeps the participant stored never lowers it.
C25_StaleHeartbeatIgnored ==
  [][
      /\ (/\ liveCall'.name = "upsertHeartbeat"
         /\ participantHeartbeats[liveCall'.participantId] # NoHeartbeatAt
         /\ liveCall'.at < participantHeartbeats[liveCall'.participantId])
        => UNCHANGED <<online, channelStatus, latestHeartbeatAt, participantHeartbeats>>
      /\ \A p \in LivenessParticipants :
            /\ received'[p] # {} => participantHeartbeats'[p] = MaxOf(received'[p])
            /\ received'[p] = {} => participantHeartbeats'[p] = NoHeartbeatAt
            /\ (participantHeartbeats[p] # NoHeartbeatAt /\ received'[p] # {})
               => participantHeartbeats'[p] >= participantHeartbeats[p]
    ]_vars

\* a heartbeat older than the stored one has just been delivered and ignored
C25_Witness ==
  /\ liveCall.name = "upsertHeartbeat"
  /\ liveCall.at < participantHeartbeats[liveCall.participantId]
  /\ received[liveCall.participantId] = {1, 2}
  /\ participantHeartbeats[liveCall.participantId] = 2
  /\ latestHeartbeatAt = 2

(***************************************************************************)
(* utils/inbox.ts : applyMessageToInbox                                    *)
(***************************************************************************)
InboxThreadIds == {<<"a">>, <<"b">>}

InboxSenders == {AGENT_ID, "visitor-1"}

InboxTimes == {1, 3}

\* entries the cache may hold before the first patch
InboxEntries ==
  {[thread |-> [id |-> id, status |-> "open", createdAt |-> 1, updatedAt |-> updatedAt],
    unreadCount |-> unreadCount, lastMessage |-> NoLastMessage] :
     id \in InboxThreadIds, updatedAt \in {1, 2}, unreadCount \in {0, 1}}

\* lists of at most two threads, in any order
InboxLists ==
  {<<>>} \cup {<<e>> : e \in InboxEntries}
         \cup {pair \in {<<e, f>> : e \in InboxEntries, f \in InboxEntries} :
                  pair[1].thread.id # pair[2].thread.id}

\* the comparator without the updatedAt level
sortInboxThreadComparator_IgnoresUpdatedAt(left, right) ==
  right.unreadCount - left.unreadCount

sortInboxThreadComparator(left, right) ==
  LET unreadDelta == right.unreadCount - left.unreadCount
  IN  IF unreadDelta # 0 THEN unreadDelta
      ELSE right.thread.updatedAt - left.thread.updatedAt

\* the placeholder takes createdAt for createdAt only
placeholderThread_NoUpdatedAt(tid, createdAt) ==
  [id |-> tid, status |-> "open", createdAt |-> createdAt, updatedAt |-> 0]

placeholderThread(tid, createdAt) ==
  [id |-> tid, status |-> "open", createdAt |-> createdAt, updatedAt |-> createdAt]

\* Array.prototype.sort is stable
RECURSIVE InsertInboxThread(_, _)
InsertInboxThread(sorted, x) ==
  IF sorted = <<>> THEN <<x>>
  ELSE IF sortInboxThreadComparator(sorted[Len(sorted)], x) <= 0 THEN Append(sorted, x)
  ELSE Append(InsertInboxThread(SubSeq(sorted, 1, Len(sorted) - 1), x),
              sorted[Len(sorted)])

RECURSIVE sortInboxThreads(_)
sortInboxThreads(items) ==
  IF items = <<>> THEN <<>>
  ELSE InsertInboxThread(sortInboxThreads(SubSeq(items, 1, Len(items) - 1)),
                         items[Len(items)])

\* nextItems.findIndex(...): 0 stands for -1
findThreadIndex(items, tid) ==
  IF \E i \in 1..Len(items) : items[i].thread.id = tid
  THEN CHOOSE i \in 1..Len(items) :
          /\ items[i].thread.id = tid
          /\ \A j \in 1..(i - 1) : items[j].thread.id # tid
  ELSE 0

\* the unread count also grows for a message of the agent
nextUnreadCount_CountsAgent(existing, message, activeId) ==
  IF message.threadId = activeId THEN 0
  ELSE existing.unreadCount + 1

nextUnreadCount(existing, message, activeId) ==
  IF message.senderId = AGENT_ID THEN existing.unreadCount
  ELSE IF message.threadId = activeId THEN 0
  ELSE existing.unreadCount + 1

\* applyMessageToInbox(current, message, {agentId: AGENT_ID, activeThreadId})
applyMessageToInbox(current, message, activeId) ==
  LET threadIndex == findThreadIndex(current, message.threadId)
  IN  IF threadIndex = 0
      THEN [items |-> sortInboxThreads(Append(current,
                        [thread |-> placeholderThread(message.threadId, message.createdAt),
                         unreadCount |-> IF message.senderId = AGENT_ID
                                            \/ message.threadId = activeId
                                         THEN 0 ELSE 1,
                         lastMessage |-> message])),
            insertedUnknownThread |-> TRUE]
      ELSE [items |-> sortInboxThreads(
                        [current EXCEPT ![threadIndex] =
                           [thread |-> [current[threadIndex].thread EXCEPT
                                          !.updatedAt = Max(@, message.createdAt)],
                            unreadCount |-> nextUnreadCount(current[threadIndex], message,
                                                            activeId),
                            lastMessage |-> message]]),
            insertedUnknownThread |-> FALSE]

\* a message reaches the inbox cache and is applied to it
ApplyMessage ==
  /\ patchCount < MaxPatches
  /\ patchCount' = patchCount + 1
  /\ \E tid \in InboxThreadIds, senderId \in InboxSenders, createdAt \in InboxTimes,
        activeId \in InboxThreadIds \cup {NoThread} :
        LET message == [id |-> patchCount + 1, threadId |-> tid, senderId |-> senderId,
                        createdAt |-> createdAt]
            result == applyMessageToInbox(inboxItems, message, activeId)
        IN  /\ inboxCurrent' = inboxItems
            /\ inboxMessage' = message
            /\ inboxActiveThreadId' = activeId
            /\ inboxItems' = result.items
            /\ insertedUnknownThread' = result.insertedUnknownThread
  /\ UNCHANGED nonInboxVars

InboxInit ==
  /\ NonInboxIdle
  /\ inboxItems \in InboxLists
  /\ inboxCurrent = <<>>
  /\ inboxMessage = NoLastMessage
  /\ inboxActiveThreadId = NoThread
  /\ insertedUnknownThread = FALSE
  /\ patchCount = 0

InboxNext == ApplyMessage

SpecInbox == InboxInit /\ [][InboxNext]_vars

\* entries of a list, and the entry a list holds for a thread
EntriesOf(items) == {items[i] : i \in 1..Len(items)}

KnownThread == \E e \in EntriesOf(inboxCurrent) : e.thread.id = inboxMessage.threadId

EntryFor(items, tid) == CHOOSE e \in EntriesOf(items) : e.thread.id = tid

\* C26: when the thread of the message is in the list, the returned list holds
\* for it an entry with lastMessage the message, updatedAt the larger of the
\* old updatedAt and message.createdAt, and unreadCount unchanged for a
\* message of the agent, else 0 for the active thread, else one more; all other
\* entries are the old ones and insertedUnknownThread is false.
C26_KnownThreadPatched ==
  (patchCount > 0 /\ KnownThread)
  => LET old == EntryFor(inboxCurrent, inboxMessage.threadId)
         new == [thread |-> [old.thread EXCEPT
                               !.updatedAt = IF old.thread.updatedAt >= inboxMessage.createdAt
                                             THEN old.thread.updatedAt
                                             ELSE inboxMessage.createdAt],
                 unreadCount |-> IF inboxMessage.senderId = "agent-1" THEN old.unreadCount
                                 ELSE IF inboxMessage.threadId = inboxActiveThreadId THEN 0
                                 ELSE old.unreadCount + 1,
                 lastMessage |-> inboxMessage]
     IN  /\ EntriesOf(inboxItems) = (EntriesOf(inboxCurrent) \ {old}) \cup {new}
         /\ Len(inboxItems) = Len(inboxCurrent)
         /\ ~insertedUnknownThread

\* a visitor message for a known thread that is not the active one has raised
\* its unread count from 1 to 2
C26_Witness ==
  /\ patchCount > 0
  /\ KnownThread
  /\ inboxMessage.senderId = "visitor-1"
  /\ inboxMessage.threadId # inboxActiveThreadId
  /\ EntryFor(inboxCurrent, inboxMessage.threadId).unreadCount = 1
  /\ EntryFor(inboxItems, inboxMessage.threadId).unreadCount = 2
  /\ Len(inboxItems) = 2

\* C27: when the thread of the message is not in the list, the returned list
\* is the old entries plus one entry for it (status open, createdAt and
\* updatedAt equal to message.createdAt, lastMessage the message, unreadCount
\* 0 for a message of the agent or for the active thread, else 1), and
\* insertedUnknownThread is true exactly in that case.
C27_UnknownThreadInserted ==
  patchCount > 0
  => /\ insertedUnknownThread <=> ~KnownThread
     /\ ~KnownThread
        => LET new == [thread |-> [id |-> inboxMessage.threadId, status |-> "open",
                                   createdAt |-> inboxMessage.createdAt,
                                   updatedAt |-> inboxMessage.createdAt],
                       unreadCount |-> IF inboxMessage.senderId = "agent-1"
                                          \/ inboxMessage.threadId = inboxActiveThreadId
                                       THEN 0 ELSE 1,
                       lastMessage |-> inboxMessage]
           IN  /\ EntriesOf(inboxItems) = EntriesOf(inboxCurrent) \cup {new}
               /\ Len(inboxItems) = Len(inboxCurrent) + 1

\* a visitor message of an unknown, inactive thread was added to a list that
\* already held a thread
C27_Witness ==
  /\ patchCount > 0
  /\ ~KnownThread
  /\ insertedUnknownThread
  /\ Len(inboxCurrent) = 1
  /\ Len(inboxItems) = 2
  /\ inboxMessage.senderId = "visitor-1"
  /\ EntryFor(inboxItems, inboxMessage.threadId).unreadCount = 1

\* C28: the list applyMessageToInbox returns is ordered by unreadCount
\* descending and, for equal unreadCount, by thread.updatedAt descending,
\* whatever the order of the list it was given.
C28_InboxSorted ==
  patchCount > 0
  => \A i, j \in 1..Len(inboxItems) :
        i < j => \/ inboxItems[i].unreadCount > inboxItems[j].unreadCount
                 \/ /\ inboxItems[i].unreadCount = inboxItems[j].unreadCount
                    /\ inboxItems[i].thread.updatedAt >= inboxItems[j].thread.updatedAt

\* a list given out of order came back in order, with equal unread counts
\* ordered by updatedAt
C28_Witness ==
  /\ patchCount = 1
  /\ Len(inboxCurrent) = 2
  /\ inboxCurrent[1].unreadCount < inboxCurrent[2].unreadCount
  /\ Len(inboxItems) = 2
  /\ inboxItems[1].unreadCount = inboxItems[2].unreadCount
  /\ inboxItems[1].thread.updatedAt > inboxItems[2].thread.updatedAt

(***************************************************************************)
(* hooks/useAgentInbox : the postgres_changes INSERT handler               *)
(***************************************************************************)
UNKNOWN_THREAD_INVALIDATE_THROTTLE_MS == 5000

SEEN_EVENT_TTL_MS == 60000

\* client_id of a row; <<>> is the empty string, a falsy required field
InsertClientIds == {<<>>, <<"c">>, <<"d">>}

\* created_at of a row, and the thread the agent may have open
InsertTimes == {3}

InsertActiveThreadIds == {NoThread, <<"a">>}

\* amounts of time between two events
ClockSteps == {1, 5000, 60000}

\* what the first fetch may have put in the cache
AgentInboxCaches ==
  {<<>>} \cup {<<e>> : e \in {f \in InboxEntries : f.thread.id = <<"a">> /\ f.thread.updatedAt = 1}}

\* the key is made of the thread and the row id
dedupeKey_RowId(next) == next.thread_id \o <<":">> \o <<next.id>>

\* `${next.thread_id}:${next.client_id}`
dedupeKey(next) == next.thread_id \o <<":">> \o next.client_id

\* seenMessageKeys.get(dedupeKey): 0 stands for undefined
seenGet(entries, key) ==
  IF \E e \in entries : e[1] = key THEN (CHOOSE e \in entries : e[1] = key)[2] ELSE 0

invalidateUnknownThreads ==
  IF dateNow - lastUnknownInvalidateAt < UNKNOWN_THREAD_INVALIDATE_THROTTLE_MS
  THEN UNCHANGED <<lastUnknownInvalidateAt, invalidateCount>>
  ELSE /\ lastUnknownInvalidateAt' = dateNow
       /\ invalidateCount' = invalidateCount + 1

\* the callback of channel.on("postgres_changes", {event: "INSERT"}, ...)
OnInsert ==
  /\ insertCount < MaxInserts
  /\ insertCount' = insertCount + 1
  /\ \E tid \in InboxThreadIds, cid \in InsertClientIds, senderId \in InboxSenders,
        createdAt \in InsertTimes, activeId \in InsertActiveThreadIds :
        LET next == [id |-> insertCount + 1, client_id |-> cid, thread_id |-> tid,
                     sender_id |-> senderId,
                     sender_role |-> IF senderId = AGENT_ID THEN "agent" ELSE "visitor",
                     body |-> <<"h", "i">>, created_at |-> toISOString(createdAt),
                     seq |-> insertCount + 1]
            now == dateNow
            kept == {e \in seenMessageKeys : ~(now - e[2] > SEEN_EVENT_TTL_MS)}
            alreadySeenAt == seenGet(kept, dedupeKey(next))
            result == applyMessageToInbox(agentInboxCache, toMessage(next), activeId)
            call == [next |-> next, now |-> now, activeThreadId |-> activeId,
                     current |-> agentInboxCache, invalidated |-> invalidateCount]
        IN  IF next.client_id = <<>>
            THEN /\ lastInsert' = call @@ [outcome |-> "invalid"]
                 /\ UNCHANGED <<agentInboxCache, seenMessageKeys, lastUnknownInvalidateAt,
                                invalidateCount, processed>>
            ELSE IF alreadySeenAt # 0 /\ now - alreadySeenAt <= SEEN_EVENT_TTL_MS
            THEN /\ seenMessageKeys' = kept
                 /\ lastInsert' = call @@ [outcome |-> "dropped"]
                 /\ UNCHANGED <<agentInboxCache, lastUnknownInvalidateAt, invalidateCount,
                                processed>>
            ELSE /\ seenMessageKeys' =
                      {e \in kept : e[1] # dedupeKey(next)} \cup {<<dedupeKey(next), now>>}
                 /\ agentInboxCache' = result.items
                 /\ IF result.insertedUnknownThread
                    THEN invalidateUnknownThreads
                    ELSE UNCHANGED <<lastUnknownInvalidateAt, invalidateCount>>
                 /\ processed' = processed \cup {<<<<next.thread_id, next.client_id>>, now>>}
                 /\ lastInsert' = call @@ [outcome |-> "patched"]
  /\ UNCHANGED <<dateNow, tickCount>>
  /\ UNCHANGED nonAgentInboxVars

\* time passes between two events
AdvanceClock ==
  /\ tickCount < MaxTicks
  /\ tickCount' = tickCount + 1
  /\ \E d \in ClockSteps : dateNow' = dateNow + d
  /\ UNCHANGED <<agentInboxCache, seenMessageKeys, lastUnknownInvalidateAt, invalidateCount,
                 lastInsert, processed, insertCount>>
  /\ UNCHANGED nonAgentInboxVars

AgentInboxInit ==
  /\ NonAgentInboxIdle
  /\ agentInboxCache \in AgentInboxCaches
  /\ seenMessageKeys = {}
  /\ lastUnknownInvalidateAt = 0
  /\ dateNow = MountNow
  /\ invalidateCount = 0
  /\ lastInsert = NoInsert
  /\ processed = {}
  /\ insertCount = 0
  /\ tickCount = 0

AgentInboxNext == OnInsert \/ AdvanceClock

SpecAgentInbox == AgentInboxInit /\ [][AgentInboxNext]_vars

\* the pair (thread_id, client_id) of the row was processed at most 60000 ms
\* before now
ProcessedWithinTtl(next, now) ==
  \E e \in processed : e[1] = <<next.thread_id, next.client_id>> /\ now - e[2] <= 60000

ThreadCached(items, tid) == \E e \in EntriesOf(items) : e.thread.id = tid

\* the cache holds the message of the row as lastMessage of its thread
PatchedWith(items, next) ==
  /\ ThreadCached(items, next.thread_id)
  /\ EntryFor(items, next.thread_id).lastMessage = toMessage(next)

\* C29: a realtime insert whose (thread_id, client_id) was processed within the
\* previous 60000 ms leaves the inbox cache as it is and invalidates nothing,
\* whatever its row id; any other insert patches the cache and invalidates
\* nothing.
C29_DuplicateDroppedFirstPatched ==
  [][
      (insertCount' = insertCount + 1 /\ lastInsert'.outcome # "invalid")
      => IF ProcessedWithinTtl(lastInsert'.next, dateNow)
         THEN UNCHANGED <<agentInboxCache, invalidateCount>>
         ELSE /\ PatchedWith(agentInboxCache', lastInsert'.next)
              /\ invalidateCount' = invalidateCount
  ]_vars

\* C29 (amended): a realtime insert whose (thread_id, client_id) was processed
\* within the previous 60000 ms leaves the inbox cache as it is and invalidates
\* nothing, whatever its row id; any other insert patches the cache, and
\* invalidates nothing when its thread is in the cache; when its thread is not
\* in the cache it invalidates the inbox query once, unless the query was
\* invalidated less than 5000 ms before.
C29_DuplicateDroppedFirstPatchedAmended ==
  [][
      (insertCount' = insertCount + 1 /\ lastInsert'.outcome # "invalid")
      => IF ProcessedWithinTtl(lastInsert'.next, dateNow)
         THEN UNCHANGED <<agentInboxCache, invalidateCount>>
         ELSE /\ PatchedWith(agentInboxCache', lastInsert'.next)
              /\ ThreadCached(agentInboxCache, lastInsert'.next.thread_id)
                 => invalidateCount' = invalidateCount
              /\ ~ThreadCached(agentInboxCache, lastInsert'.next.thread_id)
                 => invalidateCount' =
                       IF dateNow - lastUnknownInvalidateAt < 5000
                       THEN invalidateCount ELSE invalidateCount + 1
  ]_vars

\* the second delivery of a visitor message, with another row id and 60000 ms
\* after the first, was dropped: the cache still holds the first row and an
\* unread count of 1
C29_Witness ==
  /\ lastInsert.outcome = "dropped"
  /\ lastInsert.next.id = 2
  /\ lastInsert.next.sender_id = "visitor-1"
  /\ lastInsert.activeThreadId = NoThread
  /\ processed = {<<<<lastInsert.next.thread_id, lastInsert.next.client_id>>,
                    lastInsert.now - 60000>>}
  /\ agentInboxCache = lastInsert.current
  /\ ThreadCached(agentInboxCache, lastInsert.next.thread_id)
  /\ EntryFor(agentInboxCache, lastInsert.next.thread_id).lastMessage.id = 1
  /\ EntryFor(agentInboxCache, lastInsert.next.thread_id).unreadCount = 1
  /\ invalidateCount = 0

(***************************************************************************)
(* lib/visitorTabLock and hooks/useVisitorTabLock                          *)
(***************************************************************************)
LOCK_TTL_MS == 15000

LOCK_REFRESH_MS == 4000

\* an item that JSON.parse or isValidLock rejects
StoredMalformed == [kind |-> "malformed"]

\* JSON.stringify({ownerTabId, expiresAt}) as stored, and as JSON.parse returns it
StoredLock(ownerTabId, expiresAt) ==
  [kind |-> "lock", ownerTabId |-> ownerTabId, expiresAt |-> expiresAt]

\* amounts of time between two steps of the tabs
LockClockSteps == {100, LOCK_REFRESH_MS, LOCK_TTL_MS}

\* syncOwnership returns from tryAcquireOrRefreshLock with the given result;
\* the first call of a tab is the one of initTimer, which sets lockReady
SyncReturns(tab, result, expiresAt) ==
  /\ isPrimaryTab' = [isPrimaryTab EXCEPT ![tab] = result]
  /\ grantedUntil' = [grantedUntil EXCEPT ![tab] = IF result THEN expiresAt ELSE 0]
  /\ lockReady' = [lockReady EXCEPT ![tab] = TRUE]
  /\ tabPc' = [tabPc EXCEPT ![tab] = "idle"]

\* initTimer, refreshTimer or onStorage calls syncOwnership:
\* tryAcquireOrRefreshLock takes now and readLock calls getItem
AcquireGetItem(tab) ==
  /\ tabMounted[tab]
  /\ tabPc[tab] = "idle"
  /\ syncCount[tab] < MaxSyncs
  /\ syncCount' = [syncCount EXCEPT ![tab] = @ + 1]
  /\ tabNow' = [tabNow EXCEPT ![tab] = lockClock]
  /\ tabCurrent' = [tabCurrent EXCEPT ![tab] = lockStorage]
  /\ IF lockStorage.kind = "malformed"
     THEN /\ tabPc' = [tabPc EXCEPT ![tab] = "readLock_removeItem"]
          /\ UNCHANGED <<isPrimaryTab, lockReady, grantedUntil>>
     ELSE LET ownsCurrentLock ==
                lockStorage.kind = "lock" /\ lockStorage.ownerTabId = tab
              lockIsExpired ==
                IF lockStorage.kind = "lock" THEN lockStorage.expiresAt <= lockClock
                ELSE TRUE
          IN  IF ~ownsCurrentLock /\ ~lockIsExpired
              THEN SyncReturns(tab, FALSE, 0)
              ELSE /\ tabPc' = [tabPc EXCEPT ![tab] = "writeLock_setItem"]
                   /\ UNCHANGED <<isPrimaryTab, lockReady, grantedUntil>>
  /\ UNCHANGED <<lockStorage, lockClock, tabMounted, lockTicks>>
  /\ UNCHANGED nonTabLockVars

\* readLock found a malformed item: removeLock, and current is null
AcquireRemoveItem(tab) ==
  /\ tabPc[tab] = "readLock_removeItem"
  /\ lockStorage' = StoredNull
  /\ tabPc' = [tabPc EXCEPT ![tab] = "writeLock_setItem"]
  /\ UNCHANGED <<lockClock, lockTicks>>
  /\ tabCurrent' = [tabCurrent EXCEPT ![tab] = StoredNull]
  /\ UNCHANGED <<tabNow, isPrimaryTab, lockReady, grantedUntil, tabMounted, syncCount>>
  /\ UNCHANGED nonTabLockVars

\* writeLock({ownerTabId: tabId, expiresAt: now + LOCK_TTL_MS})
AcquireSetItem(tab) ==
  /\ tabPc[tab] = "writeLock_setItem"
  /\ lockStorage' = StoredLock(tab, tabNow[tab] + LOCK_TTL_MS)
  /\ tabPc' = [tabPc EXCEPT ![tab] = "confirm_getItem"]
  /\ UNCHANGED <<lockClock, lockTicks>>
  /\ UNCHANGED <<tabNow, tabCurrent, isPrimaryTab, lockReady, grantedUntil, tabMounted, syncCount>>
  /\ UNCHANGED nonTabLockVars

\* confirmed = readLock(), and the call returns
AcquireConfirm(tab) ==
  /\ tabPc[tab] = "confirm_getItem"
  /\ SyncReturns(tab,
                 /\ lockStorage.kind = "lock"
                 /\ lockStorage.ownerTabId = tab
                 /\ lockStorage.expiresAt > tabNow[tab],
                 IF lockStorage.kind = "lock" THEN lockStorage.expiresAt ELSE 0)
  /\ UNCHANGED <<lockStorage, lockClock, tabNow, tabCurrent, tabMounted, syncCount, lockTicks>>
  /\ UNCHANGED nonTabLockVars

\* the cleanup of the effect calls release: releaseLockIfOwner reads the lock
ReleaseGetItem(tab) ==
  /\ tabMounted[tab]
  /\ tabPc[tab] = "idle"
  /\ IF lockStorage.kind = "null"
        \/ (lockStorage.kind = "lock" /\ lockStorage.ownerTabId # tab)
     THEN /\ tabMounted' = [tabMounted EXCEPT ![tab] = FALSE]
          /\ grantedUntil' = [grantedUntil EXCEPT ![tab] = 0]
          /\ UNCHANGED tabPc
     ELSE /\ tabPc' = [tabPc EXCEPT ![tab] = "release_removeItem"]
          /\ UNCHANGED <<tabMounted, grantedUntil>>
  /\ UNCHANGED <<lockStorage, lockClock, tabNow, tabCurrent, isPrimaryTab, lockReady, syncCount, lockTicks>>
  /\ UNCHANGED nonTabLockVars

\* removeLock of readLock (malformed item) or of releaseLockIfOwner (own lock)
ReleaseRemoveItem(tab) ==
  /\ tabPc[tab] = "release_removeItem"
  /\ lockStorage' = StoredNull
  /\ tabPc' = [tabPc EXCEPT ![tab] = "idle"]
  /\ tabMounted' = [tabMounted EXCEPT ![tab] = FALSE]
  /\ grantedUntil' = [grantedUntil EXCEPT ![tab] = 0]
  /\ UNCHANGED <<lockClock, tabNow, tabCurrent, isPrimaryTab, lockReady, syncCount, lockTicks>>
  /\ UNCHANGED nonTabLockVars

\* time passes
AdvanceLockClock ==
  /\ lockTicks < MaxLockTicks
  /\ lockTicks' = lockTicks + 1
  /\ \E d \in LockClockSteps : lockClock' = lockClock + d
  /\ UNCHANGED <<lockStorage, tabPc, tabNow, tabCurrent, isPrimaryTab, lockReady, grantedUntil,
                 tabMounted, syncCount>>
  /\ UNCHANGED nonTabLockVars

TabLockInit ==
  /\ NonTabLockIdle
  /\ lockStorage \in {StoredNull, StoredMalformed}
  /\ lockClock = TabsOpenNow
  /\ tabPc = [tab \in TabIds |-> "idle"]
  /\ tabNow = [tab \in TabIds |-> 0]
  /\ tabCurrent = [tab \in TabIds |-> StoredNull]
  /\ isPrimaryTab = [tab \in TabIds |-> TRUE]
  /\ lockReady = [tab \in TabIds |-> FALSE]
  /\ grantedUntil = [tab \in TabIds |-> 0]
  /\ tabMounted = [tab \in TabIds |-> TRUE]
  /\ syncCount = [tab \in TabIds |-> 0]
  /\ lockTicks = 0

TabLockNext ==
  \/ \E tab \in TabIds : AcquireGetItem(tab)
  \/ \E tab \in TabIds : AcquireRemoveItem(tab)
  \/ \E tab \in TabIds : AcquireSetItem(tab)
  \/ \E tab \in TabIds : AcquireConfirm(tab)
  \/ \E tab \in TabIds : ReleaseGetItem(tab)
  \/ \E tab \in TabIds : ReleaseRemoveItem(tab)
  \/ AdvanceLockClock

SpecTabLock == TabLockInit /\ [][TabLockNext]_vars

\* the tab is mounted and its last call of tryAcquireOrRefreshLock returned
\* true with a lock that has not expired
HoldsGrant(tab) == tabMounted[tab] /\ grantedUntil[tab] > lockClock

\* C30: no two tabs hold at the same time a true result of
\* tryAcquireOrRefreshLock whose lock has not expired, whatever the order in
\* which the localStorage operations of their calls are carried out.
C30_AtMostOnePrimary ==
  \A tab1, tab2 \in TabIds : (HoldsGrant(tab1) /\ HoldsGrant(tab2)) => tab1 = tab2

\* the call of tryAcquireOrRefreshLock the tab was running returns in this step
AcquireReturns(tab) ==
  \/ tabPc[tab] = "confirm_getItem" /\ tabPc'[tab] = "idle"
  \/ tabPc[tab] = "idle" /\ tabPc'[tab] = "idle" /\ syncCount'[tab] # syncCount[tab]

\* C31: tryAcquireOrRefreshLock(tab, now) returns true exactly when the lock it
\* found is absent (or malformed, which it removes), expired at now, or owned
\* by tab; on true the stored lock is {tab, now + 15000}; and a tab obtains
\* true only when no other mounted tab holds an unexpired lock it obtained.
C31_AcquireContract ==
  [][
      \A tab \in TabIds :
         AcquireReturns(tab)
         => /\ isPrimaryTab'[tab]
               <=> \/ tabCurrent'[tab].kind # "lock"
                   \/ tabCurrent'[tab].expiresAt <= tabNow'[tab]
                   \/ tabCurrent'[tab].ownerTabId = tab
            /\ isPrimaryTab'[tab]
               => lockStorage' = StoredLock(tab, tabNow'[tab] + 15000)
            /\ lockStorage'.kind # "malformed"
            /\ \A other \in TabIds \ {tab} : isPrimaryTab'[tab] => ~HoldsGrant(other)
  ]_vars

\* C32: when releaseLockIfOwner(tab) returns, it has removed the stored lock if
\* that lock was owned by tab, and has left a stored lock of another tab, or
\* the absence of a lock, as it was.
C32_ReleaseOnlyOwner ==
  [][
      \A tab \in TabIds :
         (tabMounted[tab] /\ ~tabMounted'[tab])
         => IF lockStorage.kind = "lock" /\ lockStorage.ownerTabId = tab
            THEN lockStorage' = StoredNull
            ELSE IF lockStorage.kind = "lock" \/ lockStorage.kind = "null"
            THEN lockStorage' = lockStorage
            ELSE lockStorage' = StoredNull
  ]_vars

(***************************************************************************)
(* hooks/useVisitorChat: what a tab does with and without the tab lock.    *)
(* Rendering is atomic with the state change that causes it: callbacks and *)
(* publishRef.current always belong to the latest values of lockReady,     *)
(* isPrimaryTab and threadId.  The gateway's channel and the typing        *)
(* controller's decision to publish are inputs of each step.               *)
(***************************************************************************)

\* the two thread ids ensureThread hands out in turn
OwnThreadIds == {<<"t">>, <<"u">>}

nextThreadFor(previous) == IF previous = <<"t">> THEN <<"u">> ELSE <<"t">>

canOwnChat == ownLockReady /\ ownIsPrimaryTab

publishTypingAllowed_NoOwnerCheck == ownThreadId # NoThread

\* the guard of publishTyping (visitorId and the gateway are set)
publishTypingAllowed == canOwnChat /\ ownThreadId # NoThread

\* the guard of sendInternal (visitorId and the repository are set)
sendInternalAllowed == canOwnChat /\ ownThreadId # NoThread

\* the guard of clearConversation
clearConversationAllowed == canOwnChat /\ ~ownIsClearing

\* the guard of markVisitorRead
markVisitorReadAllowed == canOwnChat /\ ownThreadId # NoThread

\* publishTyping: gateway.setTyping publishes when the gateway has a channel
publishTyping(hasChannel) ==
  IF publishTypingAllowed /\ hasChannel THEN {"publish"} ELSE {}

\* forceStop of the typing controller: emits typing=false or nothing
typingForceStop(emits, hasChannel) ==
  IF emits THEN publishTyping(hasChannel) ELSE {}

OwnStepOf(name, isCall, effects) ==
  [name |-> name, isCall |-> isCall, canOwnChat |-> canOwnChat, effects |-> effects]

depsChanged(newCan, newThread) ==
  <<canOwnChat, ownThreadId>> # <<newCan, newThread>>

\* the subscription effect after a render with the new canOwnChat and
\* threadId: the cleanup of the mounted run, then a new run that calls
\* connectThread; a run unsubscribed after its interval exists is cleared
subscriptionRuns(newCan, newThread) ==
  IF ~depsChanged(newCan, newThread) THEN ownRuns
  ELSE {[r EXCEPT !.unsubscribed = TRUE] : r \in {q \in ownRuns : q.stage # "running"}}
       \cup (IF newCan /\ newThread # NoThread
             THEN {[stage |-> "connecting", unsubscribed |-> FALSE]}
             ELSE {})

\* the cleanup of the mounted run: resetRealtimeForThread(threadId),
\* setRemoteTyping(false), setLiveMeta(null)
subscriptionStore(newCan, newThread, store) ==
  IF depsChanged(newCan, newThread) /\ (\E r \in ownRuns : ~r.unsubscribed)
  THEN [store EXCEPT !.realtimeMessages = @ \ {ownThreadId},
                     !.remoteTyping = FALSE,
                     !.liveMeta = FALSE]
  ELSE store

subscriptionEffects(newCan, newThread) ==
  IF depsChanged(newCan, newThread) /\ newCan /\ newThread # NoThread
  THEN {"connect"}
  ELSE {}

\* useVisitorTabLock's sync: lockReady becomes true, isPrimaryTab the result
TabLockSync(result) ==
  /\ ownLockReady' = TRUE
  /\ ownIsPrimaryTab' = result
  /\ ownRuns' = subscriptionRuns(result, ownThreadId)
  /\ ownStep' = [name |-> "lockSync", isCall |-> FALSE, canOwnChat |-> result,
                 effects |-> subscriptionEffects(result, ownThreadId)]
  /\ ownStore' = subscriptionStore(result, ownThreadId, ownStore)
  /\ UNCHANGED <<ownThreadId, ownIsClearing, ownPrevious, ownOptimistic, ownWriting>>
  /\ UNCHANGED nonOwnerVars

\* the bootstrap effect: ensureThread returns the visitor's thread
BootstrapResolved ==
  /\ ~ownStore.ready
  /\ ~ownIsClearing
  /\ ownThreadId' = <<"t">>
  /\ ownRuns' = subscriptionRuns(canOwnChat, <<"t">>)
  /\ ownStep' = OwnStepOf("bootstrap", FALSE,
                          {"write"} \cup subscriptionEffects(canOwnChat, <<"t">>))
  /\ ownStore' = [subscriptionStore(canOwnChat, <<"t">>, ownStore) EXCEPT !.ready = TRUE]
  /\ UNCHANGED <<ownLockReady, ownIsPrimaryTab, ownIsClearing, ownPrevious,
                 ownOptimistic, ownWriting>>
  /\ UNCHANGED nonOwnerVars

\* sendMessage(value): sendInternal, then forceStop when it has returned
TabSendMessage(clientId, valid, gate, emits, hasChannel) ==
  /\ ownOptimistic[clientId] = "none"
  /\ IF ~sendInternalAllowed \/ ~valid
     THEN /\ ownStep' = OwnStepOf("sendMessage", TRUE, typingForceStop(emits, hasChannel))
          /\ UNCHANGED <<ownOptimistic, ownWriting>>
     ELSE IF ~gate
     THEN /\ ownOptimistic' = [ownOptimistic EXCEPT ![clientId] = "failed"]
          /\ ownStep' = OwnStepOf("sendMessage", TRUE,
                                  {"optimistic"} \cup typingForceStop(emits, hasChannel))
          /\ UNCHANGED ownWriting
     ELSE /\ ownOptimistic' = [ownOptimistic EXCEPT ![clientId] = "sending"]
          /\ ownWriting' = ownWriting \cup {clientId}
          /\ ownStep' = OwnStepOf("sendMessage", TRUE, {"optimistic", "write"})
  /\ UNCHANGED <<ownLockReady, ownIsPrimaryTab, ownThreadId, ownIsClearing, ownPrevious, ownRuns>>
  /\ UNCHANGED ownStore
  /\ UNCHANGED nonOwnerVars

\* retryMessage(clientId): returns unless the entry is failed, else sendInternal
TabRetryMessage(clientId, gate) ==
  /\ IF ownOptimistic[clientId] # "failed" \/ ~sendInternalAllowed
     THEN /\ ownStep' = OwnStepOf("retryMessage", TRUE, {})
          /\ UNCHANGED <<ownOptimistic, ownWriting>>
     ELSE IF ~gate
     THEN /\ ownStep' = OwnStepOf("retryMessage", TRUE, {"optimistic"})
          /\ UNCHANGED <<ownOptimistic, ownWriting>>
     ELSE /\ ownOptimistic' = [ownOptimistic EXCEPT ![clientId] = "sending"]
          /\ ownWriting' = ownWriting \cup {clientId}
          /\ ownStep' = OwnStepOf("retryMessage", TRUE, {"optimistic", "write"})
  /\ UNCHANGED <<ownLockReady, ownIsPrimaryTab, ownThreadId, ownIsClearing, ownPrevious, ownRuns>>
  /\ UNCHANGED ownStore
  /\ UNCHANGED nonOwnerVars

\* sendInternal after sendMessageToThread settled: the entry is removed and
\* the message published on the gateway, or the entry is marked failed;
\* the forceStop of sendMessage follows
SendSettled(clientId, sentThreadId, ok, emits, hasChannel) ==
  /\ clientId \in ownWriting
  /\ ownStore' = IF ok THEN [ownStore EXCEPT !.realtimeMessages = @ \cup {sentThreadId}]
                 ELSE ownStore
  /\ ownWriting' = ownWriting \ {clientId}
  /\ ownOptimistic' = [ownOptimistic EXCEPT ![clientId] =
                         IF @ # "sending" THEN @ ELSE IF ok THEN "none" ELSE "failed"]
  /\ ownStep' = OwnStepOf("sendSettled", FALSE,
                          (IF ok /\ hasChannel THEN {"publish"} ELSE {})
                          \cup typingForceStop(emits, hasChannel))
  /\ UNCHANGED <<ownLockReady, ownIsPrimaryTab, ownThreadId, ownIsClearing, ownPrevious, ownRuns>>
  /\ UNCHANGED nonOwnerVars

\* resetForClearStart(now)
resetForClearStart(store) ==
  [store EXCEPT !.ready = FALSE, !.remoteTyping = FALSE, !.liveMeta = FALSE,
                !.realtimeMessages = {}]

finalizeClear_ReadyUntouched(store) == store

\* finalizeClear()
finalizeClear(store) == [store EXCEPT !.ready = TRUE]

\* clearConversation up to its await of ensureThread; the widget enables its
\* button only while ready and not clearing
TabClearConversation(emits, hasChannel) ==
  /\ ownStore.ready \/ ownIsClearing
  /\ IF ~clearConversationAllowed
     THEN /\ ownStep' = OwnStepOf("clearConversation", TRUE, {})
          /\ UNCHANGED <<ownThreadId, ownIsClearing, ownPrevious, ownOptimistic, ownRuns,
                         ownStore>>
     ELSE /\ ownPrevious' = ownThreadId
          /\ ownThreadId' = NoThread
          /\ ownIsClearing' = TRUE
          /\ ownOptimistic' = [c \in OwnClientIds |-> "none"]
          /\ ownRuns' = subscriptionRuns(canOwnChat, NoThread)
          /\ ownStore' = resetForClearStart(ownStore)
          /\ ownStep' = OwnStepOf("clearConversation", TRUE,
                                  {"write"} \cup typingForceStop(emits, hasChannel))
  /\ UNCHANGED <<ownLockReady, ownIsPrimaryTab, ownWriting>>
  /\ UNCHANGED nonOwnerVars

\* clearConversation after ensureThread settled
ClearSettled(ok) ==
  /\ ownIsClearing
  /\ ownIsClearing' = FALSE
  /\ LET settled == IF ok THEN nextThreadFor(ownPrevious) ELSE ownPrevious
     IN /\ ownThreadId' = settled
        /\ ownRuns' = subscriptionRuns(canOwnChat, settled)
        /\ ownStep' = OwnStepOf("clearSettled", FALSE, subscriptionEffects(canOwnChat, settled))
  /\ ownStore' = finalizeClear(ownStore)
  /\ UNCHANGED <<ownLockReady, ownIsPrimaryTab, ownPrevious, ownOptimistic, ownWriting>>
  /\ UNCHANGED nonOwnerVars

\* markVisitorRead, called by the widget or by the auto-read effect
markVisitorRead ==
  /\ ownStep' = OwnStepOf("markVisitorRead", TRUE,
                          IF markVisitorReadAllowed THEN {"write"} ELSE {})
  /\ UNCHANGED <<ownLockReady, ownIsPrimaryTab, ownThreadId, ownIsClearing, ownPrevious,
                 ownOptimistic, ownWriting, ownRuns>>
  /\ UNCHANGED ownStore
  /\ UNCHANGED nonOwnerVars

\* the typing controller publishes through publishRef.current
TypingPublish(hasChannel) ==
  /\ ownStep' = OwnStepOf("publishTyping", TRUE, publishTyping(hasChannel))
  /\ UNCHANGED <<ownLockReady, ownIsPrimaryTab, ownThreadId, ownIsClearing, ownPrevious,
                 ownOptimistic, ownWriting, ownRuns>>
  /\ UNCHANGED ownStore
  /\ UNCHANGED nonOwnerVars

\* connectThread resolved in a run of the subscription effect: an
\* unsubscribed run returns, another awaits its first publishHeartbeat
OwnConnectResolved(run, hasChannel) ==
  /\ run \in ownRuns
  /\ run.stage = "connecting"
  /\ ownRuns' = (ownRuns \ {run})
                \cup (IF run.unsubscribed THEN {} ELSE {[run EXCEPT !.stage = "first"]})
  /\ ownStep' = OwnStepOf("connectResolved", FALSE,
                          IF ~run.unsubscribed /\ hasChannel THEN {"heartbeat"} ELSE {})
  /\ UNCHANGED <<ownLockReady, ownIsPrimaryTab, ownThreadId, ownIsClearing, ownPrevious,
                 ownOptimistic, ownWriting>>
  /\ UNCHANGED ownStore
  /\ UNCHANGED nonOwnerVars

\* the first publishHeartbeat resolved: the interval is created, and cleared
\* at once when the run was unsubscribed meanwhile
OwnFirstHeartbeatResolved(run) ==
  /\ run \in ownRuns
  /\ run.stage = "first"
  /\ ownRuns' = (ownRuns \ {run})
                \cup (IF run.unsubscribed THEN {} ELSE {[run EXCEPT !.stage = "running"]})
  /\ ownStep' = OwnStepOf("firstHeartbeatResolved", FALSE, {})
  /\ UNCHANGED <<ownLockReady, ownIsPrimaryTab, ownThreadId, ownIsClearing, ownPrevious,
                 ownOptimistic, ownWriting>>
  /\ UNCHANGED ownStore
  /\ UNCHANGED nonOwnerVars

\* a tick of the heartbeat interval of a mounted run
OwnHeartbeatTick(run, hasChannel) ==
  /\ run \in ownRuns
  /\ run.stage = "running"
  /\ ownStep' = OwnStepOf("heartbeatTick", FALSE, IF hasChannel THEN {"heartbeat"} ELSE {})
  /\ UNCHANGED <<ownLockReady, ownIsPrimaryTab, ownThreadId, ownIsClearing, ownPrevious,
                 ownOptimistic, ownWriting, ownRuns>>
  /\ UNCHANGED ownStore
  /\ UNCHANGED nonOwnerVars

\* a listener of a mounted run gets a realtime event of the thread: a
\* message, a typing payload or a heartbeat
OwnRealtimeEvent(kind) ==
  /\ \E r \in ownRuns : ~r.unsubscribed /\ r.stage # "connecting"
  /\ ownStore' = IF kind = "message"
                 THEN [ownStore EXCEPT !.realtimeMessages = @ \cup {ownThreadId}]
                 ELSE IF kind = "typing"
                 THEN [ownStore EXCEPT !.remoteTyping = ~@]
                 ELSE [ownStore EXCEPT !.liveMeta = TRUE]
  /\ ownStep' = OwnStepOf("realtimeEvent", FALSE, {})
  /\ UNCHANGED <<ownLockReady, ownIsPrimaryTab, ownThreadId, ownIsClearing, ownPrevious,
                 ownOptimistic, ownWriting, ownRuns>>
  /\ UNCHANGED nonOwnerVars

OwnerInit ==
  /\ NonOwnerIdle
  /\ OwnerIdle

OwnerNext ==
  \/ \E result \in BOOLEAN : TabLockSync(result)
  \/ BootstrapResolved
  \/ \E clientId \in OwnClientIds, valid, gate, emits, hasChannel \in BOOLEAN :
        TabSendMessage(clientId, valid, gate, emits, hasChannel)
  \/ \E clientId \in OwnClientIds, gate \in BOOLEAN : TabRetryMessage(clientId, gate)
  \/ \E clientId \in OwnClientIds, sentThreadId \in OwnThreadIds,
        ok, emits, hasChannel \in BOOLEAN :
        SendSettled(clientId, sentThreadId, ok, emits, hasChannel)
  \/ \E emits, hasChannel \in BOOLEAN : TabClearConversation(emits, hasChannel)
  \/ \E ok \in BOOLEAN : ClearSettled(ok)
  \/ markVisitorRead
  \/ \E hasChannel \in BOOLEAN : TypingPublish(hasChannel)
  \/ \E run \in ownRuns, hasChannel \in BOOLEAN : OwnConnectResolved(run, hasChannel)
  \/ \E run \in ownRuns : OwnFirstHeartbeatResolved(run)
  \/ \E run \in ownRuns, hasChannel \in BOOLEAN : OwnHeartbeatTick(run, hasChannel)
  \/ \E kind \in {"message", "typing", "heartbeat"} : OwnRealtimeEvent(kind)

SpecOwner == OwnerInit /\ [][OwnerNext]_vars

MaxInboxLen == 2

StoreThreadIds == {<<"a">>, <<"b">>, <<"c">>}

\* the thread ids of the inbox argument, in inbox order
StoreInboxes == UNION {[1..n -> StoreThreadIds] : n \in 0..MaxInboxLen}

inboxHas(inbox, tid) == \E i \in 1..Len(inbox) : inbox[i] = tid

syncActiveThreadFromInbox_KeepsMissing(state, inbox) ==
  IF Len(inbox) = 0
  THEN [state EXCEPT !.activeThreadId = NoThread]
  ELSE IF state.activeThreadId # NoThread
  THEN state
  ELSE [state EXCEPT !.activeThreadId = inbox[1]]

syncActiveThreadFromInbox(state, inbox) ==
  IF Len(inbox) = 0
  THEN IF state.activeThreadId = NoThread
       THEN state
       ELSE [state EXCEPT !.activeThreadId = NoThread]
  ELSE IF state.activeThreadId # NoThread /\ inboxHas(inbox, state.activeThreadId)
  THEN state
  ELSE [state EXCEPT !.activeThreadId = inbox[1]]

SyncActiveThreadFromInbox(inbox) ==
  /\ storeState' = syncActiveThreadFromInbox(storeState, inbox)
  /\ storeCall' = [op |-> "sync", inbox |-> inbox, before |-> storeState]
  /\ UNCHANGED nonAgentStoreVars

StoreSetActiveThreadId(tid) ==
  /\ storeState' = IF storeState.activeThreadId = tid
                   THEN storeState
                   ELSE [storeState EXCEPT !.activeThreadId = tid]
  /\ storeCall' = [op |-> "setActive", inbox |-> <<>>, before |-> storeState]
  /\ UNCHANGED nonAgentStoreVars

SetRemoteTyping(tid, typing) ==
  /\ storeState' = IF (tid \in storeState.remoteTypingByThread) = typing
                   THEN storeState
                   ELSE [storeState EXCEPT !.remoteTypingByThread =
                           IF typing THEN @ \cup {tid} ELSE @ \ {tid}]
  /\ storeCall' = [op |-> "setRemoteTyping", inbox |-> <<>>, before |-> storeState]
  /\ UNCHANGED nonAgentStoreVars

SetClockMs(clockMs) ==
  /\ storeState' = [storeState EXCEPT !.clockMs = clockMs]
  /\ storeCall' = [op |-> "setClockMs", inbox |-> <<>>, before |-> storeState]
  /\ UNCHANGED nonAgentStoreVars

AgentStoreInit ==
  /\ NonAgentStoreIdle
  /\ AgentStoreIdle

AgentStoreNext ==
  \/ \E inbox \in StoreInboxes : SyncActiveThreadFromInbox(inbox)
  \/ \E tid \in StoreThreadIds \cup {NoThread} : StoreSetActiveThreadId(tid)
  \/ \E tid \in StoreThreadIds, typing \in BOOLEAN : SetRemoteTyping(tid, typing)
  \/ \E clockMs \in 0..1 : SetClockMs(clockMs)

SpecAgentStore == AgentStoreInit /\ [][AgentStoreNext]_vars

\* C34: after syncActiveThreadFromInbox(inbox), activeThreadId is null when
\* the inbox is empty, unchanged when it already names a thread of the inbox,
\* and otherwise the id of the first inbox entry; so it is null or the id of
\* a thread in the inbox, and the other store fields are unchanged.
C34_SyncActiveThread ==
  storeCall.op = "sync"
  => /\ storeState.activeThreadId =
          IF Len(storeCall.inbox) = 0 THEN NoThread
          ELSE IF inboxHas(storeCall.inbox, storeCall.before.activeThreadId)
          THEN storeCall.before.activeThreadId
          ELSE storeCall.inbox[1]
     /\ \/ storeState.activeThreadId = NoThread
        \/ inboxHas(storeCall.inbox, storeState.activeThreadId)
     /\ storeState.clockMs = storeCall.before.clockMs
     /\ storeState.remoteTypingByThread = storeCall.before.remoteTypingByThread

\* a sync moved the active thread from one missing in the inbox to the
\* first entry of a two-entry inbox, with a typing flag and clock set
C34_Witness ==
  /\ storeCall.op = "sync"
  /\ Len(storeCall.inbox) = 2
  /\ storeCall.before.activeThreadId # NoThread
  /\ ~inboxHas(storeCall.inbox, storeCall.before.activeThreadId)
  /\ storeState.activeThreadId = storeCall.inbox[1]
  /\ storeState.remoteTypingByThread # {}
  /\ storeState.clockMs = 1

\* C35: every forceStop() called while the thread id is non-null clears the
\* debounce, idle and refresh timers, sets lastActivityAt to null and
\* publishes typing=false, whatever isTyping and canEmit were before.
C35_ForceStopAlwaysPublishes ==
  (lastCall.name = "forceStop" /\ currentThreadId # NoThread)
  => /\ debounceTimer = NoTimer
     /\ idleTimer = NoTimer
     /\ refreshTimer = NoTimer
     /\ lastActivityAge = NoTime
     /\ Len(published) = 1
     /\ ~published[1].isTyping

\* C36: a debounce timer that fires while the last published value is
\* already typing=true publishes nothing.
C36_DebounceOnlyOnEdge ==
  [][
      (DebounceFires /\ isTyping) => published' = <<>>
  ]_vars

\* the participants with an entry in participantHeartbeats
ParticipantsPresent ==
  {p \in LivenessParticipants : participantHeartbeats[p] # NoHeartbeatAt}

\* C37: in every state reached by upsertHeartbeat and removeParticipant,
\* latestHeartbeatAt is the maximum timestamp of the per-participant map, and
\* null when the map is empty.
C37_LatestIsMapMaximum ==
  IF ParticipantsPresent = {}
  THEN latestHeartbeatAt = NoHeartbeatAt
  ELSE /\ \E p \in ParticipantsPresent : latestHeartbeatAt = participantHeartbeats[p]
       /\ \A p \in ParticipantsPresent : latestHeartbeatAt >= participantHeartbeats[p]

MaxGatewayCalls == 4

GatewayThreadIds == {<<"a">>, <<"b">>}

\* connectThread after its await of disconnect: the channel of the thread is
\* created, subscribed and assigned
openChannel(tid) ==
  /\ gwThreadId' = tid
  /\ gwChannels' = Append(gwChannels, [threadId |-> tid, state |-> "subscribed"])
  /\ gwChannel' = Len(gwChannels) + 1

\* channel.unsubscribe() is called on the channel
leaveChannel(channels, channel) ==
  [channels EXCEPT ![channel].state = IF @ = "closed" THEN @ ELSE "leaving"]

connectThread_NoEarlyReturn(tid) ==
  /\ gwCallCount < MaxGatewayCalls
  /\ gwCallCount' = gwCallCount + 1
  /\ IF gwChannel = NoChannel
     THEN /\ openChannel(tid)
          /\ gwResolved' = [threadId |-> tid, channel |-> Len(gwChannels) + 1]
          /\ UNCHANGED gwPending
     ELSE /\ gwPending' = gwPending \cup {[id |-> gwCallCount + 1, kind |-> "connect",
                                           threadId |-> tid, channel |-> gwChannel]}
          /\ gwChannels' = leaveChannel(gwChannels, gwChannel)
          /\ gwResolved' = NoResolved
          /\ UNCHANGED <<gwThreadId, gwChannel>>
  /\ UNCHANGED nonGatewayVars

connectThread(tid) ==
  /\ gwCallCount < MaxGatewayCalls
  /\ gwCallCount' = gwCallCount + 1
  /\ IF gwThreadId = tid /\ gwChannel # NoChannel
     THEN /\ gwResolved' = [threadId |-> tid, channel |-> gwChannel]
          /\ UNCHANGED <<gwThreadId, gwChannel, gwChannels, gwPending>>
     ELSE IF gwChannel = NoChannel
     THEN /\ openChannel(tid)
          /\ gwResolved' = [threadId |-> tid, channel |-> Len(gwChannels) + 1]
          /\ UNCHANGED gwPending
     ELSE /\ gwPending' = gwPending \cup {[id |-> gwCallCount + 1, kind |-> "connect",
                                           threadId |-> tid, channel |-> gwChannel]}
          /\ gwChannels' = leaveChannel(gwChannels, gwChannel)
          /\ gwResolved' = NoResolved
          /\ UNCHANGED <<gwThreadId, gwChannel>>
  /\ UNCHANGED nonGatewayVars

disconnect ==
  /\ gwCallCount < MaxGatewayCalls
  /\ gwCallCount' = gwCallCount + 1
  /\ gwResolved' = NoResolved
  /\ IF gwChannel = NoChannel
     THEN UNCHANGED <<gwThreadId, gwChannel, gwChannels, gwPending>>
     ELSE /\ gwPending' = gwPending \cup {[id |-> gwCallCount + 1, kind |-> "disconnect",
                                           threadId |-> NoThread, channel |-> gwChannel]}
          /\ gwChannels' = leaveChannel(gwChannels, gwChannel)
          /\ UNCHANGED <<gwThreadId, gwChannel>>
  /\ UNCHANGED nonGatewayVars

\* the unsubscribe a call awaits has resolved: this.channel = null, and a
\* connectThread goes on to create its channel
UnsubscribeResolved(call) ==
  /\ call \in gwPending
  /\ gwPending' = gwPending \ {call}
  /\ IF call.kind = "connect"
     THEN /\ gwThreadId' = call.threadId
          /\ gwChannels' = Append([gwChannels EXCEPT ![call.channel].state = "closed"],
                                  [threadId |-> call.threadId, state |-> "subscribed"])
          /\ gwChannel' = Len(gwChannels) + 1
          /\ gwResolved' = IF \E later \in gwPending : later.id > call.id
                           THEN NoResolved
                           ELSE [threadId |-> call.threadId, channel |-> Len(gwChannels) + 1]
     ELSE /\ gwChannel' = NoChannel
          /\ gwChannels' = [gwChannels EXCEPT ![call.channel].state = "closed"]
          /\ UNCHANGED <<gwThreadId, gwResolved>>
  /\ UNCHANGED gwCallCount
  /\ UNCHANGED nonGatewayVars

GatewayInit ==
  /\ NonGatewayIdle
  /\ GatewayIdle

GatewayNext ==
  \/ \E tid \in GatewayThreadIds : connectThread(tid)
  \/ disconnect
  \/ \E call \in gwPending : UnsubscribeResolved(call)

SpecGateway == GatewayInit /\ [][GatewayNext]_vars

SubscribedChannels ==
  {c \in 1..Len(gwChannels) : gwChannels[c].state = "subscribed"}

\* C39: once connectThread(T) has resolved and until the next connectThread
\* or disconnect call, the gateway's channel is the subscribed channel of T;
\* and at most one channel is subscribed at a time.
C39_ResolvedChannelStays ==
  /\ gwResolved # NoResolved
     => /\ gwChannel = gwResolved.channel
        /\ gwThreadId = gwResolved.threadId
        /\ gwChannels[gwChannel].threadId = gwResolved.threadId
        /\ gwChannels[gwChannel].state = "subscribed"
  /\ Cardinality(SubscribedChannels) <= 1

(***************************************************************************)
(* supabase/types.ts : buildCursorFilter, fetchThreadPage.  The table      *)
(* holds rows written by sendMessage, whose created_at is the ISO form of  *)
(* a millisecond timestamp.                                                *)
(***************************************************************************)

\* largest input.limit the reader passes
MaxPageLimit == 3

PageThreadId == <<"a">>

PageRow(n, tid, createdAt, seq) ==
  [id |-> RowIdOf(n), client_id |-> <<"c", DigitChars[n]>>, thread_id |-> tid,
   sender_id |-> VISITOR_ID, sender_role |-> "visitor", body |-> <<"h", "i">>,
   created_at |-> toISOString(createdAt), seq |-> seq]

\* rows that tie on created_at, and on created_at and seq, and a row of
\* another thread
PageRowPool ==
  {PageRow(1, PageThreadId, 1, 1), PageRow(2, PageThreadId, 1, 1),
   PageRow(3, PageThreadId, 1, 2), PageRow(4, PageThreadId, 2, 1),
   PageRow(5, <<"b">>, 2, 2)}

\* the filter without its id level
buildCursorFilter_NoIdLevel(cursor, r) ==
  LET createdIso == toISOString(cursor.createdAt)
  IN  \/ toEpoch(r.created_at) < toEpoch(createdIso)
      \/ r.created_at = createdIso /\ r.seq < cursor.seq

\* buildCursorFilter(cursor), applied by the database to row r
buildCursorFilter(cursor, r) ==
  LET createdIso == toISOString(cursor.createdAt)
  IN  \/ toEpoch(r.created_at) < toEpoch(createdIso)
      \/ r.created_at = createdIso /\ r.seq < cursor.seq
      \/ r.created_at = createdIso /\ r.seq = cursor.seq
         /\ localeCompare(r.id, cursor.id) < 0

\* order by created_at desc, seq desc, id desc: r comes before q
rowBefore(r, q) ==
  \/ toEpoch(r.created_at) > toEpoch(q.created_at)
  \/ r.created_at = q.created_at /\ r.seq > q.seq
  \/ r.created_at = q.created_at /\ r.seq = q.seq /\ localeCompare(r.id, q.id) > 0

\* the first n rows of S in that order
RECURSIVE limitRows(_, _)
limitRows(S, n) ==
  IF S = {} \/ n = 0 THEN <<>>
  ELSE LET first == CHOOSE r \in S : \A q \in S \ {r} : rowBefore(r, q)
       IN  <<first>> \o limitRows(S \ {first}, n - 1)

reverse(s) == [i \in 1..Len(s) |-> s[Len(s) + 1 - i]]

fetchThreadPage(table, tid, limit, cursor) ==
  LET pageSize == Max(1, IF limit < 100 THEN limit ELSE 100)
      matching == {r \in table : /\ r.thread_id = tid
                                 /\ cursor = NoCursor \/ buildCursorFilter(cursor, r)}
      data == limitRows(matching, pageSize + 1)
      hasMore == Len(data) > pageSize
      slice == IF hasMore THEN SubSeq(data, 1, pageSize) ELSE data
      ordered == reverse([i \in 1..Len(slice) |-> toMessage(slice[i])])
  IN  [items |-> ordered,
       nextCursor |-> IF hasMore /\ slice # <<>>
                      THEN [createdAt |-> toEpoch(slice[Len(slice)].created_at),
                            seq |-> slice[Len(slice)].seq,
                            id |-> slice[Len(slice)].id]
                      ELSE NoCursor]

\* the reader calls fetchThreadPage with the cursor it holds
FetchPage ==
  /\ pagePhase # "done"
  /\ LET page == fetchThreadPage(pageRows, PageThreadId, pageLimit, pageCursor)
     IN  /\ pagePages' = Append(pagePages, page.items)
         /\ pageCursor' = page.nextCursor
         /\ pagePhase' = IF page.nextCursor = NoCursor THEN "done" ELSE "more"
  /\ UNCHANGED <<pageRows, pageLimit>>
  /\ UNCHANGED nonPageVars

PageInit ==
  /\ NonPageIdle
  /\ pageRows \in SUBSET PageRowPool
  /\ pageLimit \in 0..MaxPageLimit
  /\ pageCursor = NoCursor
  /\ pagePages = <<>>
  /\ pagePhase = "start"

PageNext == FetchPage

SpecPage == PageInit /\ [][PageNext]_vars

\* the messages of the thread, and those the reader has got so far
PageThreadMessages == {toMessage(r) : r \in {q \in pageRows : q.thread_id = PageThreadId}}

PageReturned == Flatten(pagePages)

\* C40: paging from cursor null along nextCursor returns every message of
\* the thread exactly once, every message of a later page is strictly older
\* in (createdAt, seq, id) than every message of an earlier page, and
\* nextCursor is null exactly when no older message remains.
C40_PagesCoverThreadOnce ==
  /\ \A i, j \in 1..Len(PageReturned) : i # j => PageReturned[i].id # PageReturned[j].id
  /\ \A i \in 1..Len(PageReturned) : PageReturned[i] \in PageThreadMessages
  /\ pagePhase = "done"
     => PageThreadMessages = {PageReturned[i] : i \in 1..Len(PageReturned)}
  /\ \A p, q \in 1..Len(pagePages) :
        p < q => \A i \in 1..Len(pagePages[p]), j \in 1..Len(pagePages[q]) :
                    compareMessages(pagePages[q][j], pagePages[p][i]) < 0
  /\ pagePhase # "start"
     => (pageCursor = NoCursor
         <=> PageThreadMessages = {PageReturned[i] : i \in 1..Len(PageReturned)})

\* four messages with ties were read in pages of one and the reader is done
C40_Witness ==
  /\ pagePhase = "done"
  /\ pageLimit = 1
  /\ Len(pagePages) = 4
  /\ Cardinality(PageThreadMessages) = 4
  /\ Cardinality(pageRows) = 5

====
